---------------------------- MODULE Spec2Model ----------------------------
(***************************************************************************)
(* Sequence planning endpoint (api/sequence.ts): rate limiter, response    *)
(* parser, output validator, fallback orderer, shot builder and the        *)
(* request handler with its model call, 30 s abort timer and the three     *)
(* exits (model-derived, timeout, error).                                  *)
(* Vision analysis endpoint (the second handler): its rate limiter, its    *)
(* per-image model call with a 30 s abort timer, and the sequential loop   *)
(* over the photos of a request.                                           *)
(***************************************************************************)
EXTENDS Integers, Sequences, FiniteSets, TLC

(***************************************************************************)
(* Bounds of the model.                                                    *)
(***************************************************************************)
\* largest analysisResults array whose elements are enumerated
MaxItems == 2
\* number of requests one behaviour serves
MaxRequests == 2
\* number of times the clock is advanced in one behaviour
MaxTicks == 1

(***************************************************************************)
(* Program constants.                                                      *)
(***************************************************************************)
RATE_LIMIT_WINDOW_MS == 600000
RATE_LIMIT_MAX_REQUESTS == 30
MAX_IMAGES == 200
TIMEOUT_MS == 30000

(***************************************************************************)
(* JavaScript values.  A value carries its type tag; s is the text of a    *)
(* string or the decimal text of a number, a the elements of an array.     *)
(***************************************************************************)
Undef == [tag |-> "undefined", s |-> "", a |-> <<>>]
Null == [tag |-> "null", s |-> "", a |-> <<>>]
Str(x) == [tag |-> "string", s |-> x, a |-> <<>>]
Num(x) == [tag |-> "number", s |-> x, a |-> <<>>]
Arr(xs) == [tag |-> "array", s |-> "", a |-> xs]

\* String(v) for the primitive values that occur as ids
String(v) ==
  CASE v.tag = "string" -> v.s
    [] v.tag = "number" -> v.s
    [] v.tag = "undefined" -> "undefined"
    [] v.tag = "null" -> "null"
    [] OTHER -> "[array]"

\* the operand test of  v || w
Truthy(v) ==
  CASE v.tag = "string" -> v.s # ""
    [] v.tag = "number" -> v.s # "0"
    [] v.tag = "array" -> TRUE
    [] OTHER -> FALSE

\* the operand test of  v ?? w
Nullish(v) == v.tag \in {"undefined", "null"}

IsArray(v) == v.tag = "array"

\* String(idx) of an array index
DecimalDigits == <<"0", "1", "2", "3", "4", "5", "6", "7", "8", "9">>
IdxStr(idx) == DecimalDigits[idx + 1]

Range(f) == {f[i] : i \in DOMAIN f}
SeqsUpTo(S, n) == UNION {[1..k -> S] : k \in 0..n}


(***************************************************************************)
(* Model output.  A parsed JSON document is a record: kind says whether it *)
(* is an object, null or a number; the fields hold the object's            *)
(* properties (Undef where the property is absent, and for a non-object,   *)
(* whose property reads give undefined).                                   *)
(***************************************************************************)
Obj(oi, o_i, b, t, e) ==
  [kind |-> "object", orderedIds |-> oi, ordered_ids |-> o_i, beats |-> b,
   theme |-> t, emotion_arc |-> e]
JNull ==
  [kind |-> "null", orderedIds |-> Undef, ordered_ids |-> Undef,
   beats |-> Undef, theme |-> Undef, emotion_arc |-> Undef]
JNumber ==
  [kind |-> "number", orderedIds |-> Undef, ordered_ids |-> Undef,
   beats |-> Undef, theme |-> Undef, emotion_arc |-> Undef]
\* the value a call that raised leaves in place of a result
Thrown ==
  [kind |-> "thrown", orderedIds |-> Undef, ordered_ids |-> Undef,
   beats |-> Undef, theme |-> Undef, emotion_arc |-> Undef]

\* an element of beats: { id, role, reason }, or null
Beat(id, role, reason) == [isNull |-> FALSE, id |-> id, role |-> role, reason |-> reason]
NullBeat == [isNull |-> TRUE, id |-> Undef, role |-> Undef, reason |-> Undef]

(***************************************************************************)
(* Text is a sequence of tokens: the three-backquote fence, the word json,  *)
(* a newline, a blank, a piece of non-JSON text, or the serialization of   *)
(* one JSON document.                                                      *)
(***************************************************************************)
Tok(k) == [k |-> k, v |-> JNull]
DocTok(d) == [k |-> "doc", v |-> d]
FENCE == Tok("fence")
JSONWORD == Tok("json")
NL == Tok("nl")
SP == Tok("sp")
JUNK == Tok("junk")
IsWhitespace(t) == t.k \in {"nl", "sp"}

\* jsonString.replace(/<fence>json\n?/g, '')
RECURSIVE RemoveJsonFences(_)
RemoveJsonFences(t) ==
  IF t = <<>> THEN <<>>
  ELSE IF Len(t) >= 2 /\ t[1] = FENCE /\ t[2] = JSONWORD
       THEN IF Len(t) >= 3 /\ t[3] = NL
            THEN RemoveJsonFences(SubSeq(t, 4, Len(t)))
            ELSE RemoveJsonFences(SubSeq(t, 3, Len(t)))
       ELSE <<t[1]>> \o RemoveJsonFences(Tail(t))

\* .replace(/<fence>\n?/g, '')
RECURSIVE RemoveFences(_)
RemoveFences(t) ==
  IF t = <<>> THEN <<>>
  ELSE IF t[1] = FENCE
       THEN IF Len(t) >= 2 /\ t[2] = NL
            THEN RemoveFences(SubSeq(t, 3, Len(t)))
            ELSE RemoveFences(Tail(t))
       ELSE <<t[1]>> \o RemoveFences(Tail(t))

\* .trim()
RECURSIVE TrimStart(_)
TrimStart(t) ==
  IF t # <<>> /\ IsWhitespace(t[1]) THEN TrimStart(Tail(t)) ELSE t
RECURSIVE TrimEnd(_)
TrimEnd(t) ==
  IF t # <<>> /\ IsWhitespace(t[Len(t)]) THEN TrimEnd(SubSeq(t, 1, Len(t) - 1)) ELSE t
Trim(t) == TrimEnd(TrimStart(t))

\* JSON.parse: one document, blanks around it allowed; anything else raises
JSONParse(t) ==
  LET u == Trim(t)
  IN  IF Len(u) = 1 /\ u[1].k = "doc"
      THEN [ok |-> TRUE, value |-> u[1].v]
      ELSE [ok |-> FALSE, value |-> Thrown]

\* a parser that lets the parse error escape
safeParseJSON_Rethrow(jsonString, fallback) ==
  JSONParse(Trim(RemoveFences(RemoveJsonFences(jsonString)))).value

safeParseJSON(jsonString, fallback) ==
  LET cleaned == Trim(RemoveFences(RemoveJsonFences(jsonString)))
      parsed == JSONParse(cleaned)
  IN  IF parsed.ok THEN parsed.value ELSE fallback

(***************************************************************************)
(* Items.  An image is a record with id and filename; ImageId is the       *)
(* expression  String(img.id ?? img.filename ?? idx)  with idx 0-based.    *)
(***************************************************************************)
Image(id, filename) == [id |-> id, filename |-> filename]

ImageId(img, idx) ==
  String(IF ~Nullish(img.id) THEN img.id
         ELSE IF ~Nullish(img.filename) THEN img.filename
         ELSE Num(IdxStr(idx)))

ImageIdSet(images) == {ImageId(images[i], i - 1) : i \in DOMAIN images}

\* a validator that does not compare the candidate's length with targetCount
isValidSelection_Lax(orderedIds, images, targetCount) ==
  IsArray(orderedIds)
  /\ \A i \in DOMAIN orderedIds.a : String(orderedIds.a[i]) \in ImageIdSet(images)

isValidSelection(orderedIds, images, targetCount) ==
  IF ~IsArray(orderedIds) \/ Len(orderedIds.a) # targetCount
  THEN FALSE
  ELSE \A i \in DOMAIN orderedIds.a : String(orderedIds.a[i]) \in ImageIdSet(images)

Min(a, b) == IF a < b THEN a ELSE b
Max(a, b) == IF a > b THEN a ELSE b

\* images.slice(0, targetCount)
Slice0(images, targetCount) == SubSeq(images, 1, Min(Max(targetCount, 0), Len(images)))

\* a fallback orderer that returns the images last to first
deterministicFallback_Reversed(images, targetCount) ==
  LET s == Slice0(images, targetCount)
  IN  [i \in 1..Len(s) |-> ImageId(s[Len(s) + 1 - i], Len(s) - i)]

deterministicFallback(images, targetCount) ==
  LET s == Slice0(images, targetCount)
  IN  [i \in 1..Len(s) |-> ImageId(s[i], i - 1)]

\* beats.find(b => String(b.id) === String(id)): the first match, 0 for none
BeatMatches(b, id) == ~b.isNull /\ String(b.id) = String(id)
FirstBeatIndex(id, beats) ==
  LET hits == {j \in DOMAIN beats : BeatMatches(beats[j], id)}
  IN  IF hits = {} THEN 0 ELSE CHOOSE j \in hits : \A k \in hits : j <= k

\* the search reads b.id of every beat up to the first match: a null beat
\* it comes to raises a TypeError
FindRaises(id, beats) ==
  \E j \in DOMAIN beats :
     beats[j].isNull /\ \A k \in 1..(j - 1) : ~BeatMatches(beats[k], id)
buildShotsRaises(orderedIds, beats) ==
  \E i \in DOMAIN orderedIds : FindRaises(orderedIds[i], beats)

\* thresholds that take in the position equal to the quantile
QuantileRole_Inclusive(idx, n) ==
  IF idx * 10 <= n * 2 THEN "opening"
  ELSE IF idx * 10 <= n * 6 THEN "build"
  ELSE IF idx * 10 <= n * 9 THEN "turn"
  ELSE "resolution"

\* the role of position idx in an ordering of length n when no beat gives one
QuantileRole(idx, n) ==
  IF idx * 10 < n * 2 THEN "opening"
  ELSE IF idx * 10 < n * 6 THEN "build"
  ELSE IF idx * 10 < n * 9 THEN "turn"
  ELSE "resolution"

Shot(id, role, reason) == [id |-> id, role |-> role, reason |-> reason]

\* a shot builder that never looks at the beats
buildShots_IgnoreBeats(orderedIds, beats) ==
  [i \in 1..Len(orderedIds) |->
     Shot(orderedIds[i], QuantileRole(i - 1, Len(orderedIds)), "")]

buildShots(orderedIds, beats) ==
  [i \in 1..Len(orderedIds) |->
     LET j == FirstBeatIndex(orderedIds[i], beats)
     IN  Shot(orderedIds[i],
              IF j # 0 /\ Truthy(beats[j].role)
              THEN String(beats[j].role)
              ELSE QuantileRole(i - 1, Len(orderedIds)),
              IF j # 0 /\ Truthy(beats[j].reason)
              THEN String(beats[j].reason)
              ELSE "")]


(***************************************************************************)
(* Rate limiter.  rateLimitMap maps a key to its record; present is FALSE  *)
(* for a key the Map does not hold.                                        *)
(***************************************************************************)
NoIp == "null"
getRateLimitKey(ip) == IF ip = NoIp THEN "unknown" ELSE ip

NoRecord == [present |-> FALSE, count |-> 0, resetAt |-> 0]
Record(count, resetAt) == [present |-> TRUE, count |-> count, resetAt |-> resetAt]

\* a limiter that denies only above the maximum
checkRateLimit_OffByOne(map, ip, t) ==
  LET key == getRateLimitKey(ip)
      record == map[key]
  IN  IF ~record.present \/ t > record.resetAt
      THEN [map |-> [map EXCEPT ![key] = Record(1, t + RATE_LIMIT_WINDOW_MS)],
            allowed |-> TRUE, remaining |-> RATE_LIMIT_MAX_REQUESTS - 1]
      ELSE IF record.count > RATE_LIMIT_MAX_REQUESTS
      THEN [map |-> map, allowed |-> FALSE, remaining |-> 0]
      ELSE [map |-> [map EXCEPT ![key] = Record(record.count + 1, record.resetAt)],
            allowed |-> TRUE,
            remaining |-> Max(0, RATE_LIMIT_MAX_REQUESTS - (record.count + 1))]

\* a limiter whose windows never end
checkRateLimit_NoExpiry(map, ip, t) ==
  LET key == getRateLimitKey(ip)
      record == map[key]
  IN  IF ~record.present
      THEN [map |-> [map EXCEPT ![key] = Record(1, t + RATE_LIMIT_WINDOW_MS)],
            allowed |-> TRUE, remaining |-> RATE_LIMIT_MAX_REQUESTS - 1]
      ELSE IF record.count >= RATE_LIMIT_MAX_REQUESTS
      THEN [map |-> map, allowed |-> FALSE, remaining |-> 0]
      ELSE [map |-> [map EXCEPT ![key] = Record(record.count + 1, record.resetAt)],
            allowed |-> TRUE,
            remaining |-> RATE_LIMIT_MAX_REQUESTS - (record.count + 1)]

\* the Map after the call and the value the call returns
checkRateLimit(map, ip, t) ==
  LET key == getRateLimitKey(ip)
      record == map[key]
  IN  IF ~record.present \/ t > record.resetAt
      THEN [map |-> [map EXCEPT ![key] = Record(1, t + RATE_LIMIT_WINDOW_MS)],
            allowed |-> TRUE, remaining |-> RATE_LIMIT_MAX_REQUESTS - 1]
      ELSE IF record.count >= RATE_LIMIT_MAX_REQUESTS
      THEN [map |-> map, allowed |-> FALSE, remaining |-> 0]
      ELSE [map |-> [map EXCEPT ![key] = Record(record.count + 1, record.resetAt)],
            allowed |-> TRUE,
            remaining |-> RATE_LIMIT_MAX_REQUESTS - (record.count + 1)]

\* n.toString() for 0 <= n < 100
NumToString(n) ==
  IF n < 10 THEN IdxStr(n) ELSE IdxStr(n \div 10) \o IdxStr(n % 10)

(***************************************************************************)
(* Requests.  body.analysisResults is a value whose array elements are     *)
(* analysis results { id, filename } or null; an array too long to         *)
(* enumerate is given by its first elements and the number (extra) of      *)
(* further ones, of which the handler reads only the length.               *)
(***************************************************************************)
Analysis(id, filename) == [isNull |-> FALSE, id |-> id, filename |-> filename]
NullAnalysis == [isNull |-> TRUE, id |-> Undef, filename |-> Undef]

Body(readable, analysisResults, extra) ==
  [readable |-> readable, analysisResults |-> analysisResults, extra |-> extra]
Length(body) == Len(body.analysisResults.a) + body.extra

Request(method, ip, body) == [method |-> method, ip |-> ip, body |-> body]

\* lines 164-174: the image of one analysis result (the analysis bag is
\* sent to the model only and left out)
NormalizeOne(a, idx) ==
  Image(Str(String(IF ~Nullish(a.id) THEN a.id
                   ELSE IF ~Nullish(a.filename) THEN a.filename
                   ELSE Num(IdxStr(idx)))),
        IF Truthy(a.filename) THEN a.filename ELSE Str("image_" \o IdxStr(idx)))
Normalize(results) == [i \in 1..Len(results) |-> NormalizeOne(results[i], i - 1)]
\* reading a.id of a null element raises a TypeError
NormalizeRaises(results) == \E i \in DOMAIN results : results[i].isNull

(***************************************************************************)
(* Responses and plans.                                                    *)
(***************************************************************************)
NoPlan ==
  [theme |-> Undef, emotion_arc |-> <<>>, ordered_ids |-> <<>>, shots |-> <<>>,
   selected |-> <<>>, order |-> <<>>, durations |-> <<>>, transitions |-> <<>>,
   usedPlanner |-> "", hasError |-> FALSE, error |-> ""]

\* Array.from({ length: n }, (_, i) => i)
Identity0(n) == [i \in 1..n |-> i - 1]
Durations(n) == [i \in 1..n |-> "3.8"]
Transitions(n) == [i \in 1..Max(0, n - 1) |-> "crossfade"]

NoHeader == "absent"
Response(status, ok, error, message, hasPlan, plan, remaining, retryAfter) ==
  [status |-> status, ok |-> ok, error |-> error, message |-> message,
   hasPlan |-> hasPlan, plan |-> plan,
   xRateLimitRemaining |-> remaining, retryAfter |-> retryAfter]
ErrorResponse(status, ok, error) ==
  Response(status, ok, error, "", FALSE, NoPlan, NoHeader, NoHeader)
NoResponse == Response(0, "absent", "", "", FALSE, NoPlan, NoHeader, NoHeader)

\* a search that takes the last item with the id
SelectedIndex_Last(images, id) ==
  LET hits == {j \in DOMAIN images : String(images[j].id) = id}
  IN  IF hits = {} THEN 0 ELSE (CHOOSE j \in hits : \A k \in hits : j >= k) - 1

\* images.findIndex(img => String(img.id) === String(id)), 0 when none
SelectedIndex(images, id) ==
  LET hits == {j \in DOMAIN images : String(images[j].id) = id}
  IN  IF hits = {} THEN 0 ELSE (CHOOSE j \in hits : \A k \in hits : j <= k) - 1

\* lines 296-311 and 321-337: the plan of the timeout and error exits
FallbackPlan(images, targetCount, hasError, message) ==
  LET fallbackIds == deterministicFallback(images, targetCount)
      fallbackShots == buildShots([i \in DOMAIN fallbackIds |-> Str(fallbackIds[i])], <<>>)
  IN  [theme |-> Str(""), emotion_arc |-> <<>>, ordered_ids |-> fallbackIds,
       shots |-> fallbackShots,
       selected |-> Identity0(Len(fallbackIds)),
       order |-> Identity0(Len(fallbackIds)),
       durations |-> Durations(Len(fallbackIds)),
       transitions |-> Transitions(Len(fallbackIds)),
       usedPlanner |-> "fallback", hasError |-> hasError, error |-> message]


(***************************************************************************)
(* The model-derived exit, lines 234-290.                                  *)
(***************************************************************************)
MsgNullRaw == "Cannot read properties of null (reading 'orderedIds')"
MsgNullBeat == "Cannot read properties of null (reading 'id')"
MsgNoChoices == "Cannot read properties of undefined (reading 'message')"
MsgNullAnalysis == "Cannot read properties of null (reading 'id')"
MsgBadBody == "Unexpected token in JSON"
MsgUpstream == "Connection error."

\* lines 237-242
fallbackPlan(images, targetCount) ==
  LET ids == deterministicFallback(images, targetCount)
  IN  Obj(Arr([i \in DOMAIN ids |-> Str(ids[i])]), Undef, Arr(<<>>), Str(""), Arr(<<>>))

\* line 245: raw.orderedIds || raw.ordered_ids || []
selectedOrderedIds(raw) ==
  IF Truthy(raw.orderedIds) THEN raw.orderedIds
  ELSE IF Truthy(raw.ordered_ids) THEN raw.ordered_ids
  ELSE Arr(<<>>)

\* lines 246-248
beatsOf(raw) == IF IsArray(raw.beats) THEN raw.beats.a ELSE <<>>
themeOf(raw) == IF Truthy(raw.theme) THEN raw.theme ELSE Str("")
emotionArcOf(raw) == IF IsArray(raw.emotion_arc) THEN raw.emotion_arc.a ELSE <<>>

\* lines 250-256 with the model's ordering used unvalidated
finalIds_Unvalidated(raw, images, targetCount) == selectedOrderedIds(raw).a

\* lines 250-256
finalIds(raw, images, targetCount) ==
  IF isValidSelection(selectedOrderedIds(raw), images, targetCount)
  THEN selectedOrderedIds(raw).a
  ELSE LET ids == deterministicFallback(images, targetCount)
       IN  [i \in DOMAIN ids |-> Str(ids[i])]

\* the statements of lines 245-259 that raise, and the message of the error
modelRouteRaises(raw, images, targetCount) ==
  \/ raw.kind = "null"
  \/ buildShotsRaises(finalIds(raw, images, targetCount), beatsOf(raw))
modelRouteMessage(raw) == IF raw.kind = "null" THEN MsgNullRaw ELSE MsgNullBeat

\* a handler that answers an invalid ordering with the plan of the timeout
\* exit
modelPlan_FallbackShape(raw, images, targetCount) ==
  IF isValidSelection(selectedOrderedIds(raw), images, targetCount)
  THEN LET ids == selectedOrderedIds(raw).a
           orderedIdsStr == [i \in DOMAIN ids |-> String(ids[i])]
       IN  [theme |-> themeOf(raw), emotion_arc |-> emotionArcOf(raw),
            ordered_ids |-> orderedIdsStr,
            shots |-> buildShots(ids, beatsOf(raw)),
            selected |-> [i \in DOMAIN orderedIdsStr |-> SelectedIndex(images, orderedIdsStr[i])],
            order |-> Identity0(Len(orderedIdsStr)),
            durations |-> Durations(Len(orderedIdsStr)),
            transitions |-> Transitions(Len(orderedIdsStr)),
            usedPlanner |-> "ai", hasError |-> FALSE, error |-> ""]
  ELSE FallbackPlan(images, targetCount, FALSE, "")

\* lines 259-279
modelPlan(raw, images, targetCount) ==
  LET ids == finalIds(raw, images, targetCount)
      shots == buildShots(ids, beatsOf(raw))
      orderedIdsStr == [i \in DOMAIN ids |-> String(ids[i])]
  IN  [theme |-> themeOf(raw), emotion_arc |-> emotionArcOf(raw),
       ordered_ids |-> orderedIdsStr,
       shots |-> shots,
       selected |-> [i \in DOMAIN orderedIdsStr |-> SelectedIndex(images, orderedIdsStr[i])],
       order |-> Identity0(Len(orderedIdsStr)),
       durations |-> Durations(Len(orderedIdsStr)),
       transitions |-> Transitions(Len(orderedIdsStr)),
       usedPlanner |-> "ai", hasError |-> FALSE, error |-> ""]

(***************************************************************************)
(* Inputs: the requests callers send and the outputs the model gives.      *)
(***************************************************************************)
ClientIps == {"10.0.0.1", NoIp}
Keys == {getRateLimitKey(ip) : ip \in ClientIps}

AnalysisAlphabet ==
  {Analysis(Str("a"), Undef), Analysis(Num("1"), Str("a.jpg")),
   Analysis(Undef, Str("a")), Analysis(Undef, Undef), NullAnalysis}

ResultLists == SeqsUpTo(AnalysisAlphabet, MaxItems) \ {<<>>}

Bodies ==
  {Body(TRUE, Arr(l), 0) : l \in ResultLists}
  \cup {Body(FALSE, Undef, 0), Body(TRUE, Undef, 0), Body(TRUE, Str("a,b"), 0),
        Body(TRUE, Arr(<<>>), 0),
        Body(TRUE, Arr(<<Analysis(Str("a"), Undef)>>), MAX_IMAGES)}

Requests ==
  {Request("POST", ip, b) : ip \in ClientIps, b \in Bodies}
  \cup {Request("GET", ip, Body(TRUE, Arr(<<Analysis(Str("a"), Undef)>>), 0)) : ip \in ClientIps}

CandIds == {Str("a"), Num("1"), Str("z")}
Candidates == SeqsUpTo(CandIds, MaxItems + 1)
SnakeCandidates == SeqsUpTo({Str("a"), Num("1")}, MaxItems)

Arc == [isNull |-> FALSE, id |-> Str("opening"), role |-> Undef, reason |-> Undef]
Beats1 ==
  <<Beat(Str("a"), Str("climax"), Str("the peak")),
    Beat(Str("a"), Str("turn"), Str("again")),
    Beat(Num("1"), Str(""), Undef)>>
Beats2 == <<Beat(Str("a"), Str("opening"), Undef), NullBeat>>

DocsPlain == {Obj(Arr(c), Undef, Undef, Undef, Undef) : c \in Candidates}
DocsBeats == {Obj(Arr(c), Undef, Arr(Beats1), Str("trip"), Arr(<<Arc>>)) : c \in Candidates}
DocsSnake == {Obj(Undef, Arr(c), Undef, Str("trip"), Undef) : c \in SnakeCandidates}
DocsOdd ==
  {JNull, JNumber,
   Obj(Undef, Undef, Undef, Str("trip"), Arr(<<Arc>>)),
   Obj(Str("a,1"), Undef, Undef, Undef, Undef),
   Obj(Str(""), Arr(<<Str("a")>>), Str("beats"), Num("0"), Str("arc")),
   Obj(Arr(<<Str("a")>>), Arr(<<Num("1")>>), Arr(Beats2), Undef, Undef),
   Obj(Arr(<<Num("1")>>), Undef, Arr(Beats2), Str("trip"), Undef)}
Docs == DocsPlain \cup DocsBeats \cup DocsSnake \cup DocsOdd

FencedJson(d) == <<FENCE, JSONWORD, NL, DocTok(d), NL, FENCE>>
Fenced(d) == <<FENCE, NL, DocTok(d), NL, FENCE>>

Contents ==
  {<<DocTok(d)>> : d \in Docs}
  \cup {FencedJson(d) : d \in DocsOdd} \cup {Fenced(d) : d \in DocsOdd}
  \cup {<<>>, <<JUNK>>, <<SP, DocTok(JNumber), NL>>, <<JSONWORD, DocTok(JNumber)>>}

(***************************************************************************)
(* Vision analysis endpoint: photos, analyses, requests and responses.     *)
(* A photo is { filename, data } or null; dataLength is the length of its  *)
(* base64 text, -1 when the photo has no data.                             *)
(***************************************************************************)
MAX_PHOTOS == 36
MAX_BASE64_LENGTH == 13300000

Photo(filename, dataLength) ==
  [isNull |-> FALSE, filename |-> filename, dataLength |-> dataLength]
NullPhoto == [isNull |-> TRUE, filename |-> Undef, dataLength |-> -1]

\* an analysis object: the properties the model gives (Undef when absent)
VObj(filename, subject, energy) ==
  [kind |-> "object", filename |-> filename, subject |-> subject,
   visual_energy |-> energy]

createFallbackAnalysis(filename) == VObj(filename, Str("unknown"), Num("5"))

\* { filename, ...analysis }: the own properties of an object replace or
\* add to filename; null and numbers have none
SpreadOver(filename, analysis) ==
  IF analysis.kind = "object"
  THEN VObj(IF analysis.filename # Undef THEN analysis.filename ELSE filename,
            analysis.subject, analysis.visual_energy)
  ELSE VObj(filename, Undef, Undef)

\* the vision module has its own copies of the rate limiter and the parser
visionCheckRateLimit(map, ip, t) == checkRateLimit(map, ip, t)
visionSafeParseJSON(jsonString, fallback) ==
  LET cleaned == Trim(RemoveFences(RemoveJsonFences(jsonString)))
      parsed == JSONParse(cleaned)
  IN  IF parsed.ok THEN parsed.value ELSE fallback

\* the response of the model: output_text (a text, empty when the model
\* gave none) and whether output is an array of items
ModelOutput(outputText, outputIsArray) ==
  [output_text |-> outputText, outputIsArray |-> outputIsArray]

\* line 136: (response.output_text || response.output || '').trim() raises
\* when it comes to an output that is an array
contentRaises(resp) == resp.output_text = <<>> /\ resp.outputIsArray
contentOf(resp) == Trim(resp.output_text)

\* lines 133-144: what analyzeImage returns when the call resolves
analyzeImageResolved(filename, resp) ==
  IF contentRaises(resp)
  THEN createFallbackAnalysis(filename)
  ELSE SpreadOver(filename,
                  visionSafeParseJSON(contentOf(resp), createFallbackAnalysis(filename)))

\* lines 145-155: what analyzeImage returns when the call rejects
analyzeImageRejected(filename) == createFallbackAnalysis(filename)

VisionBody(readable, photos, extra) ==
  [readable |-> readable, photos |-> photos, extra |-> extra]
VisionLength(body) == Len(body.photos.a) + body.extra
NoVisionRequest == Request("", NoIp, VisionBody(FALSE, Undef, 0))

\* lines 191-214: the message of the structural check that fails, "" when none
VisionStructuralError(body) ==
  IF ~Truthy(body.photos) \/ ~IsArray(body.photos)
  THEN "photos array required"
  ELSE IF VisionLength(body) = 0 THEN "photos array cannot be empty"
  ELSE IF VisionLength(body) > MAX_PHOTOS THEN "Too many photos (max 36)"
  ELSE ""

VisionResponse(status, ok, error, message, hasResults, results, count, remaining, retryAfter) ==
  [status |-> status, ok |-> ok, error |-> error, message |-> message,
   hasResults |-> hasResults, results |-> results, count |-> count,
   xRateLimitRemaining |-> remaining, retryAfter |-> retryAfter]
VisionErrorResponse(status, ok, error) ==
  VisionResponse(status, ok, error, "", FALSE, <<>>, 0, NoHeader, NoHeader)
NoVisionResponse == VisionResponse(0, "absent", "", "", FALSE, <<>>, 0, NoHeader, NoHeader)

\* one model call of a vision request: the photo it is for, its state
\* ("inflight", "resolved", "rejected", "aborted"), its timer ("armed",
\* "cleared", "fired"), the response it resolved with and whether an answer
\* arrived after the abort
NoModelOutput == ModelOutput(<<>>, FALSE)
VisionCall(photo, state, tm, output, lateAnswer) ==
  [photo |-> photo, state |-> state, timer |-> tm, output |-> output,
   late |-> lateAnswer]

MsgNullPhoto == "Cannot read properties of null (reading 'filename')"
MsgNoFilename == "Cannot read properties of undefined (reading 'split')"
MsgNoData == "Cannot read properties of undefined (reading 'includes')"

\* lines 237-247: reading the photo raises a TypeError
PhotoRaises(photo) ==
  photo.isNull \/ photo.filename.tag # "string" \/ photo.dataLength < 0
PhotoMessage(photo) ==
  IF photo.isNull THEN MsgNullPhoto
  ELSE IF photo.filename.tag # "string" THEN MsgNoFilename
  ELSE MsgNoData

\* a loop that passes over an oversized photo without a result for it
RECURSIVE RunLoop_SkipOversized(_, _, _)
RunLoop_SkipOversized(photos, k, rs) ==
  IF k >= Len(photos) THEN [kind |-> "return", i |-> k, results |-> rs]
  ELSE LET photo == photos[k + 1]
       IN  IF PhotoRaises(photo) THEN [kind |-> "raise", i |-> k, results |-> rs]
           ELSE IF photo.dataLength > MAX_BASE64_LENGTH
           THEN RunLoop_SkipOversized(photos, k + 1, rs)
           ELSE [kind |-> "call", i |-> k, results |-> rs]

\* the loop of lines 236-273 from index k with the results rs, up to its
\* next await: it stops at a photo to analyze ("call"), at a photo whose
\* reading raises ("raise"), or past the last photo ("return"); an
\* oversized photo gets the canned analysis and the loop goes on
RECURSIVE RunLoop(_, _, _)
RunLoop(photos, k, rs) ==
  IF k >= Len(photos) THEN [kind |-> "return", i |-> k, results |-> rs]
  ELSE LET photo == photos[k + 1]
       IN  IF PhotoRaises(photo) THEN [kind |-> "raise", i |-> k, results |-> rs]
           ELSE IF photo.dataLength > MAX_BASE64_LENGTH
           THEN RunLoop(photos, k + 1, Append(rs, createFallbackAnalysis(photo.filename)))
           ELSE [kind |-> "call", i |-> k, results |-> rs]

(***************************************************************************)
(* State.                                                                  *)
(***************************************************************************)
VARIABLES
  rateLimitMap,   \* the module's Map
  now,            \* Date.now()
  ticks,          \* how often the clock was advanced
  apiKey,         \* whether process.env.OPENAI_API_KEY is set
  nreq,           \* requests received so far
  pc,             \* "idle", "awaiting" (the model call), "done"
  request,        \* the request being served
  rateLimit,      \* what checkRateLimit returned for it
  images,         \* its normalized items
  timer,          \* its abort timer: "unset", "armed", "cleared", "fired"
  call,           \* its model call: "none", "inflight", "resolved", "rejected", "aborted"
  calls,          \* model calls issued for it
  outcome,        \* what the model call gave
  route,          \* the return statement the handler left by
  response,       \* the response returned
  late,           \* whether the answer to an aborted call arrived afterwards
  unit,           \* one call of a pure function and its result
  visionRateLimitMap,  \* the vision module's Map
  visionPc,       \* "idle", "awaiting" (a model call), "delay" (the 50 ms), "done"
  visionRequest,  \* the vision request being served
  visionRateLimit, \* what its checkRateLimit returned
  photoIndex,     \* the loop index i (0-based)
  analysisResults, \* the results pushed so far
  visionCalls,    \* the model calls issued for the request, in order
  visionRoute,    \* the return statement the vision handler left by
  visionResponse  \* the response it returned

visionVars ==
  <<visionRateLimitMap, visionPc, visionRequest, visionRateLimit, photoIndex,
    analysisResults, visionCalls, visionRoute, visionResponse>>

vars ==
  <<rateLimitMap, now, ticks, apiKey, nreq, pc, request, rateLimit, images,
    timer, call, calls, outcome, route, response, late, unit, visionVars>>

NoOutcome == [kind |-> "none", hasChoices |-> FALSE, content |-> <<>>, message |-> ""]
NoRateLimit == [allowed |-> FALSE, remaining |-> 0]
NoRequest == Request("", NoIp, Body(FALSE, Undef, 0))
NoUnit == [fn |-> "none"]

\* the vision handler serves no request
VisionIdle ==
  /\ visionPc = "idle"
  /\ visionRequest = NoVisionRequest
  /\ visionRateLimit = NoRateLimit
  /\ photoIndex = 0
  /\ analysisResults = <<>>
  /\ visionCalls = <<>>
  /\ visionRoute = "none"
  /\ visionResponse = NoVisionResponse

\* a Map that is empty, or that has counted a burst of one caller (each
\* module has its own Map; both start alike)
InitialMaps ==
  {[k \in Keys |-> NoRecord],
   [k \in Keys |-> IF k = "10.0.0.1"
                   THEN Record(RATE_LIMIT_MAX_REQUESTS - 1, RATE_LIMIT_WINDOW_MS)
                   ELSE NoRecord]}

Init ==
  /\ rateLimitMap \in InitialMaps
  /\ now = 0
  /\ ticks = 0
  /\ apiKey \in BOOLEAN
  /\ nreq = 0
  /\ pc = "idle"
  /\ request = NoRequest
  /\ rateLimit = NoRateLimit
  /\ images = <<>>
  /\ timer = "unset"
  /\ call = "none"
  /\ calls = 0
  /\ outcome = NoOutcome
  /\ route = "none"
  /\ response = NoResponse
  /\ late = FALSE
  /\ unit = NoUnit
  /\ visionRateLimitMap = rateLimitMap
  /\ VisionIdle


(***************************************************************************)
(* The handler up to its model call, lines 87-232: each action is one      *)
(* return statement, or the issue of the call.                             *)
(***************************************************************************)
Begin(r) ==
  /\ pc = "idle"
  /\ visionPc = "idle"
  /\ nreq < MaxRequests
  /\ r \in Requests
  /\ nreq' = nreq + 1
  /\ request' = r

\* the handler returns resp by the return statement rt without calling the model
Return(rt, resp) ==
  /\ pc' = "done"
  /\ route' = rt
  /\ response' = resp
  /\ images' = <<>>
  /\ timer' = "unset"
  /\ call' = "none"
  /\ calls' = 0
  /\ outcome' = NoOutcome
  /\ late' = FALSE
  /\ UNCHANGED <<now, ticks, apiKey, unit, visionVars>>

\* input validation without the cap on the batch size
StructuralError_NoCap(body) ==
  IF ~Truthy(body.analysisResults) \/ ~IsArray(body.analysisResults)
  THEN "analysisResults array required"
  ELSE IF Length(body) = 0 THEN "analysisResults array cannot be empty"
  ELSE ""

\* lines 120-143: the message of the structural check that fails, "" when none
StructuralError(body) ==
  IF ~Truthy(body.analysisResults) \/ ~IsArray(body.analysisResults)
  THEN "analysisResults array required"
  ELSE IF Length(body) = 0 THEN "analysisResults array cannot be empty"
  ELSE IF Length(body) > MAX_IMAGES THEN "Too many images (max 200)"
  ELSE ""

\* lines 89-94
ReceiveNotPost(r) ==
  /\ Begin(r)
  /\ r.method # "POST"
  /\ rateLimit' = NoRateLimit
  /\ UNCHANGED rateLimitMap
  /\ Return("method", ErrorResponse(405, "absent", "Method not allowed"))

\* lines 96-114
ReceiveRateLimited(r) ==
  /\ Begin(r)
  /\ r.method = "POST"
  /\ LET rl == checkRateLimit(rateLimitMap, r.ip, now)
     IN  /\ ~rl.allowed
         /\ rateLimitMap' = rl.map
         /\ rateLimit' = [allowed |-> rl.allowed, remaining |-> rl.remaining]
  /\ Return("ratelimit",
            Response(429, "absent", "Rate limit exceeded",
                     "Too many requests. Please try again later.",
                     FALSE, NoPlan, "0", "600"))

\* the rate-limit check of a request that goes on to the try block
Admit(r) ==
  /\ Begin(r)
  /\ r.method = "POST"
  /\ LET rl == checkRateLimit(rateLimitMap, r.ip, now)
     IN  /\ rl.allowed
         /\ rateLimitMap' = rl.map
         /\ rateLimit' = [allowed |-> rl.allowed, remaining |-> rl.remaining]

\* line 118 raises (the body is not JSON, or is null): lines 344-352
ReceiveUnreadable(r) ==
  /\ Admit(r)
  /\ ~r.body.readable
  /\ Return("toplevel", ErrorResponse(500, "false", MsgBadBody))

\* lines 120-143
ReceiveInvalid(r) ==
  /\ Admit(r)
  /\ r.body.readable
  /\ StructuralError(r.body) # ""
  /\ Return("structural", ErrorResponse(400, "absent", StructuralError(r.body)))

\* lines 148-155
ReceiveNoKey(r) ==
  /\ Admit(r)
  /\ r.body.readable
  /\ StructuralError(r.body) = ""
  /\ ~apiKey
  /\ Return("config", ErrorResponse(500, "absent", "Server configuration error"))

\* lines 164-174 raise on a null element: lines 344-352
ReceiveNormalizeRaises(r) ==
  /\ Admit(r)
  /\ r.body.readable
  /\ StructuralError(r.body) = ""
  /\ apiKey
  /\ NormalizeRaises(r.body.analysisResults.a)
  /\ Return("toplevel", ErrorResponse(500, "false", MsgNullAnalysis))

\* lines 164-230: the items are built, the timer is armed, the call is issued
ReceiveAndCall(r) ==
  /\ Admit(r)
  /\ r.body.readable
  /\ StructuralError(r.body) = ""
  /\ apiKey
  /\ ~NormalizeRaises(r.body.analysisResults.a)
  /\ images' = Normalize(r.body.analysisResults.a)
  /\ timer' = "armed"
  /\ call' = "inflight"
  /\ calls' = 1
  /\ pc' = "awaiting"
  /\ route' = "none"
  /\ response' = NoResponse
  /\ outcome' = NoOutcome
  /\ late' = FALSE
  /\ UNCHANGED <<now, ticks, apiKey, unit, visionVars>>

(***************************************************************************)
(* The three ways the awaited call ends, lines 232-342.                    *)
(***************************************************************************)
targetCount == Len(images)

\* an inner catch that passes the error on to the catch of lines 344-352
ErrorRouteResponse_Rethrow(imgs, n, message) == ErrorResponse(500, "false", message)

\* lines 324-341
ErrorRouteResponse(imgs, n, message) ==
  Response(200, "true", "", "", TRUE, FallbackPlan(imgs, n, TRUE, message), NoHeader, NoHeader)

\* a timeout exit whose ordering depends on how many requests were served
TimeoutResponse_ByRequestCount(imgs, n) ==
  Response(200, "true", "", "", TRUE,
           FallbackPlan(IF nreq > 1 THEN [k \in 1..Len(imgs) |-> imgs[Len(imgs) + 1 - k]]
                        ELSE imgs,
                        n, FALSE, ""),
           NoHeader, NoHeader)

\* a catch that does not tell the abort from other errors
TimeoutResponse_AsError(imgs, n) == ErrorRouteResponse(imgs, n, "Request was aborted.")

\* lines 299-315
TimeoutResponse(imgs, n) ==
  Response(200, "true", "", "", TRUE, FallbackPlan(imgs, n, FALSE, ""), NoHeader, NoHeader)

\* lines 281-290
ModelResponse(raw, imgs, n, remaining) ==
  Response(200, "true", "", "", TRUE, modelPlan(raw, imgs, n),
           NumToString(remaining), NoHeader)

\* line 243
rawOf(content, imgs, n) == safeParseJSON(Trim(content), fallbackPlan(imgs, n))

Finish(rt, resp) ==
  /\ pc' = "done"
  /\ route' = rt
  /\ response' = resp
  /\ UNCHANGED <<rateLimitMap, now, ticks, apiKey, nreq, request, rateLimit,
                 images, calls, late, unit, visionVars>>

\* the call resolves: lines 232-290, or the catch of lines 318-341 when a
\* statement after the call raises
ModelResponds(hasChoices, content) ==
  /\ pc = "awaiting"
  /\ call = "inflight"
  /\ call' = "resolved"
  /\ timer' = "cleared"
  /\ outcome' = [kind |-> "resolved", hasChoices |-> hasChoices,
                 content |-> content, message |-> ""]
  /\ LET raw == rawOf(content, images, targetCount)
     IN  IF ~hasChoices
         THEN Finish("error", ErrorRouteResponse(images, targetCount, MsgNoChoices))
         ELSE IF modelRouteRaises(raw, images, targetCount)
         THEN Finish("error", ErrorRouteResponse(images, targetCount, modelRouteMessage(raw)))
         ELSE Finish("model", ModelResponse(raw, images, targetCount, rateLimit.remaining))

\* a handler that issues the call again when it failed
ModelFails_Retry(message) ==
  /\ pc = "awaiting"
  /\ call = "inflight"
  /\ calls < 3
  /\ calls' = calls + 1
  /\ UNCHANGED <<rateLimitMap, now, ticks, apiKey, nreq, pc, request, rateLimit,
                 images, timer, call, outcome, route, response, late, unit,
                 visionVars>>

\* the call rejects with an error other than the abort: lines 318-341
ModelFails(message) ==
  /\ pc = "awaiting"
  /\ call = "inflight"
  /\ call' = "rejected"
  /\ UNCHANGED timer
  /\ outcome' = [kind |-> "rejected", hasChoices |-> FALSE, content |-> <<>>,
                 message |-> message]
  /\ Finish("error", ErrorRouteResponse(images, targetCount, message))

\* 30 s pass with the call in flight: the timer aborts it, the call rejects
\* with an AbortError: lines 190, 293-315
TimerFires ==
  /\ pc = "awaiting"
  /\ call = "inflight"
  /\ timer = "armed"
  /\ timer' = "fired"
  /\ call' = "aborted"
  /\ outcome' = [kind |-> "aborted", hasChoices |-> FALSE, content |-> <<>>,
                 message |-> "Request was aborted."]
  /\ Finish("timeout", TimeoutResponse(images, targetCount))

\* a late timer that replaces what the handler returned by the timeout plan
TimerFiresLate_TurnsFallback ==
  /\ pc = "done"
  /\ timer = "armed"
  /\ timer' = "fired"
  /\ route' = "timeout"
  /\ response' = TimeoutResponse(images, targetCount)
  /\ UNCHANGED <<rateLimitMap, now, ticks, apiKey, nreq, pc, request, rateLimit,
                 images, call, calls, outcome, late, unit, visionVars>>

\* a timer left armed fires after the handler has returned: it aborts a call
\* that has ended
TimerFiresLate ==
  /\ pc \in {"done", "idle"}
  /\ timer = "armed"
  /\ timer' = "fired"
  /\ UNCHANGED <<rateLimitMap, now, ticks, apiKey, nreq, pc, request, rateLimit,
                 images, call, calls, outcome, route, response, late, unit,
                 visionVars>>

\* the answer to a call the timer aborted arrives afterwards: the aborted
\* call has rejected already and nothing of the handler reads the answer
AnswerArrivesLate ==
  /\ pc = "done"
  /\ call = "aborted"
  /\ ~late
  /\ late' = TRUE
  /\ UNCHANGED <<rateLimitMap, now, ticks, apiKey, nreq, pc, request, rateLimit,
                 images, timer, call, calls, outcome, route, response, unit,
                 visionVars>>

\* the response is sent and the request's values are dropped; a timer that
\* is still armed stays so
Close ==
  /\ pc = "done"
  /\ pc' = "idle"
  /\ request' = NoRequest
  /\ rateLimit' = NoRateLimit
  /\ images' = <<>>
  /\ timer' = IF timer = "armed" THEN "armed" ELSE "unset"
  /\ call' = "none"
  /\ calls' = 0
  /\ outcome' = NoOutcome
  /\ route' = "none"
  /\ response' = NoResponse
  /\ late' = FALSE
  /\ UNCHANGED <<rateLimitMap, now, ticks, apiKey, nreq, unit, visionVars>>

\* time passes between two requests
Tick(d) ==
  /\ pc = "idle"
  /\ visionPc = "idle"
  /\ ticks < MaxTicks
  /\ ticks' = ticks + 1
  /\ now' = now + d
  /\ UNCHANGED <<rateLimitMap, apiKey, nreq, pc, request, rateLimit, images,
                 timer, call, calls, outcome, route, response, late, unit,
                 visionVars>>

Receive(r) ==
  \/ ReceiveNotPost(r)
  \/ ReceiveRateLimited(r)
  \/ ReceiveUnreadable(r)
  \/ ReceiveInvalid(r)
  \/ ReceiveNoKey(r)
  \/ ReceiveNormalizeRaises(r)
  \/ ReceiveAndCall(r)

Next ==
  \/ \E r \in Requests : Receive(r)
  \/ \E c \in Contents : ModelResponds(TRUE, c)
  \/ ModelResponds(FALSE, <<>>)
  \/ ModelFails(MsgUpstream)
  \/ TimerFires
  \/ TimerFiresLate
  \/ AnswerArrivesLate
  \/ Close
  \/ \E d \in {RATE_LIMIT_WINDOW_MS, RATE_LIMIT_WINDOW_MS + 1} : Tick(d)

Spec == Init /\ [][Next]_vars

\* the runtime fires an armed timer: a call still in flight 30 s after it
\* was issued is aborted
FairSpec == Spec /\ WF_vars(TimerFires)

(***************************************************************************)
(* The vision handler.  An action is the code from one await to the next:  *)
(* from the request to the first model call (or a return), from the end of *)
(* a call to the 50 ms delay (or the return), from the delay to the next   *)
(* call (or the return).  The two handlers share no state; the model       *)
(* serves one request at a time.                                           *)
(***************************************************************************)
\* largest photos array whose elements are enumerated
MaxPhotos == 2

PhotoAlphabet ==
  {Photo(Str("a.jpg"), 1024), Photo(Str("b.png"), MAX_BASE64_LENGTH),
   Photo(Str("c.jpg"), MAX_BASE64_LENGTH + 1), Photo(Undef, 1024), NullPhoto}
PhotoLists == SeqsUpTo(PhotoAlphabet, MaxPhotos) \ {<<>>}

VisionBodies ==
  {VisionBody(TRUE, Arr(l), 0) : l \in PhotoLists}
  \cup {VisionBody(FALSE, Undef, 0), VisionBody(TRUE, Undef, 0),
        VisionBody(TRUE, Str("a.jpg"), 0), VisionBody(TRUE, Arr(<<>>), 0),
        VisionBody(TRUE, Arr(<<Photo(Str("a.jpg"), -1)>>), 0),
        VisionBody(TRUE, Arr(<<Photo(Str("a.jpg"), 1024)>>), MAX_PHOTOS)}

VisionRequests ==
  {Request("POST", ip, b) : ip \in ClientIps, b \in VisionBodies}
  \cup {Request("GET", ip, VisionBody(TRUE, Arr(<<Photo(Str("a.jpg"), 1024)>>), 0)) :
          ip \in ClientIps}

VisionDocs ==
  {VObj(Undef, Str("person"), Num("7")), VObj(Str("x.jpg"), Str("landscape"), Undef),
   JNull, JNumber}
VisionOutputs ==
  {ModelOutput(<<DocTok(d)>>, TRUE) : d \in VisionDocs}
  \cup {ModelOutput(FencedJson(VObj(Undef, Str("person"), Num("7"))), TRUE),
        ModelOutput(<<SP, DocTok(JNull), NL>>, TRUE),
        ModelOutput(<<JUNK>>, TRUE), ModelOutput(<<>>, TRUE), ModelOutput(<<>>, FALSE)}

sequenceVars ==
  <<rateLimitMap, pc, request, rateLimit, images, timer, call, calls, outcome,
    route, response, late>>

VisionBegin(r) ==
  /\ pc = "idle"
  /\ visionPc = "idle"
  /\ nreq < MaxRequests
  /\ r \in VisionRequests
  /\ nreq' = nreq + 1
  /\ visionRequest' = r
  /\ UNCHANGED <<sequenceVars, now, ticks, apiKey, unit>>

\* the handler returns resp by the return statement rt before its loop
VisionReturn(rt, resp) ==
  /\ visionPc' = "done"
  /\ visionRoute' = rt
  /\ visionResponse' = resp
  /\ photoIndex' = 0
  /\ analysisResults' = <<>>
  /\ visionCalls' = <<>>

\* lines 160-165
VisionReceiveNotPost(r) ==
  /\ VisionBegin(r)
  /\ r.method # "POST"
  /\ visionRateLimit' = NoRateLimit
  /\ UNCHANGED visionRateLimitMap
  /\ VisionReturn("method", VisionErrorResponse(405, "absent", "Method not allowed"))

\* lines 167-185
VisionReceiveRateLimited(r) ==
  /\ VisionBegin(r)
  /\ r.method = "POST"
  /\ LET rl == visionCheckRateLimit(visionRateLimitMap, r.ip, now)
     IN  /\ ~rl.allowed
         /\ visionRateLimitMap' = rl.map
         /\ visionRateLimit' = [allowed |-> rl.allowed, remaining |-> rl.remaining]
  /\ VisionReturn("ratelimit",
                  VisionResponse(429, "absent", "Rate limit exceeded",
                                 "Too many requests. Please try again later.",
                                 FALSE, <<>>, 0, "0", "600"))

\* the rate-limit check of a request that goes on to the try block
VisionAdmit(r) ==
  /\ VisionBegin(r)
  /\ r.method = "POST"
  /\ LET rl == visionCheckRateLimit(visionRateLimitMap, r.ip, now)
     IN  /\ rl.allowed
         /\ visionRateLimitMap' = rl.map
         /\ visionRateLimit' = [allowed |-> rl.allowed, remaining |-> rl.remaining]

\* line 189 raises: lines 297-306
VisionReceiveUnreadable(r) ==
  /\ VisionAdmit(r)
  /\ ~r.body.readable
  /\ VisionReturn("toplevel", VisionErrorResponse(500, "false", MsgBadBody))

\* lines 191-214
VisionReceiveInvalid(r) ==
  /\ VisionAdmit(r)
  /\ r.body.readable
  /\ VisionStructuralError(r.body) # ""
  /\ VisionReturn("structural",
                  VisionErrorResponse(400, "absent", VisionStructuralError(r.body)))

\* lines 217-224
VisionReceiveNoKey(r) ==
  /\ VisionAdmit(r)
  /\ r.body.readable
  /\ VisionStructuralError(r.body) = ""
  /\ ~apiKey
  /\ VisionReturn("config", VisionErrorResponse(500, "absent", "Server configuration error"))

\* lines 276-295: the response after the loop
VisionFinalResponse(results, nphotos, remaining) ==
  IF Len(results) # nphotos
  THEN VisionErrorResponse(500, "absent", "Analysis incomplete")
  ELSE VisionResponse(200, "true", "", "", TRUE, results, Len(results),
                      NumToString(remaining), NoHeader)

\* lines 81-131: analyzeImage arms its timer and issues its call
IssueCall(log, k) ==
  Append(log, VisionCall(k, "inflight", "armed", NoModelOutput, FALSE))

\* a loop that starts the call for the next photo along with the one it
\* has come to
Continue_TwoAtOnce(photos, run, log, remaining) ==
  /\ photoIndex' = run.i
  /\ analysisResults' = run.results
  /\ IF run.kind = "call"
     THEN /\ visionCalls' =
               IF run.i + 1 < Len(photos)
               THEN IssueCall(IssueCall(log, run.i + 1), run.i)
               ELSE IssueCall(log, run.i)
          /\ visionPc' = "awaiting"
          /\ visionRoute' = "none"
          /\ visionResponse' = NoVisionResponse
     ELSE IF run.kind = "raise"
     THEN /\ visionCalls' = log
          /\ visionPc' = "done"
          /\ visionRoute' = "toplevel"
          /\ visionResponse' =
               VisionErrorResponse(500, "false", PhotoMessage(photos[run.i + 1]))
     ELSE /\ visionCalls' = log
          /\ visionPc' = "done"
          /\ visionRoute' = IF Len(run.results) # Len(photos) THEN "incomplete" ELSE "results"
          /\ visionResponse' = VisionFinalResponse(run.results, Len(photos), remaining)

\* the loop went on from an await and stopped as run says: at a call that
\* is issued, at the raise that the catch of lines 297-306 answers, or at
\* the return of lines 276-295
Continue(photos, run, log, remaining) ==
  /\ photoIndex' = run.i
  /\ analysisResults' = run.results
  /\ IF run.kind = "call"
     THEN /\ visionCalls' = IssueCall(log, run.i)
          /\ visionPc' = "awaiting"
          /\ visionRoute' = "none"
          /\ visionResponse' = NoVisionResponse
     ELSE IF run.kind = "raise"
     THEN /\ visionCalls' = log
          /\ visionPc' = "done"
          /\ visionRoute' = "toplevel"
          /\ visionResponse' =
               VisionErrorResponse(500, "false", PhotoMessage(photos[run.i + 1]))
     ELSE /\ visionCalls' = log
          /\ visionPc' = "done"
          /\ visionRoute' = IF Len(run.results) # Len(photos) THEN "incomplete" ELSE "results"
          /\ visionResponse' = VisionFinalResponse(run.results, Len(photos), remaining)

\* lines 226-262: the loop is entered
VisionReceiveAndLoop(r) ==
  /\ VisionAdmit(r)
  /\ r.body.readable
  /\ VisionStructuralError(r.body) = ""
  /\ apiKey
  /\ Continue(r.body.photos.a, RunLoop(r.body.photos.a, 0, <<>>), <<>>,
              visionRateLimit'.remaining)

photos == visionRequest.body.photos.a
\* the call analyzeImage is waiting for
CurrentCall == visionCalls[Len(visionCalls)]
EndCall(state, tm, output) ==
  [visionCalls EXCEPT ![Len(visionCalls)] =
     VisionCall(CurrentCall.photo, state, tm, output, FALSE)]

\* a loop in which a call that gave no answer spoils the photos after it
AfterAnalysis_Tainted(result, log) ==
  LET tainted == \E c \in 1..(Len(log) - 1) : log[c].state # "resolved"
      pushed == IF tainted THEN createFallbackAnalysis(result.filename) ELSE result
  IN  /\ UNCHANGED <<visionRateLimitMap, visionRequest, visionRateLimit>>
      /\ IF photoIndex < Len(photos) - 1
         THEN /\ analysisResults' = Append(analysisResults, pushed)
              /\ visionCalls' = log
              /\ visionPc' = "delay"
              /\ UNCHANGED <<photoIndex, visionRoute, visionResponse>>
         ELSE Continue(photos,
                       RunLoop(photos, photoIndex + 1, Append(analysisResults, pushed)),
                       log, visionRateLimit.remaining)

\* lines 262-268: analyzeImage returned result; it is pushed, and the loop
\* waits 50 ms before the next photo or, after the last, goes on to return
AfterAnalysis(result, log) ==
  /\ UNCHANGED <<visionRateLimitMap, visionRequest, visionRateLimit>>
  /\ IF photoIndex < Len(photos) - 1
     THEN /\ analysisResults' = Append(analysisResults, result)
          /\ visionCalls' = log
          /\ visionPc' = "delay"
          /\ UNCHANGED <<photoIndex, visionRoute, visionResponse>>
     ELSE Continue(photos,
                   RunLoop(photos, photoIndex + 1, Append(analysisResults, result)),
                   log, visionRateLimit.remaining)

VisionStep ==
  /\ visionPc = "awaiting"
  /\ CurrentCall.state = "inflight"
  /\ UNCHANGED <<sequenceVars, now, ticks, apiKey, nreq, unit>>

\* the call resolves: lines 133-144
VisionModelResponds(resp) ==
  /\ VisionStep
  /\ AfterAnalysis(analyzeImageResolved(photos[photoIndex + 1].filename, resp),
                   EndCall("resolved", "cleared", resp))

\* the call rejects with an error other than the abort: lines 145-155
VisionModelFails ==
  /\ VisionStep
  /\ AfterAnalysis(analyzeImageRejected(photos[photoIndex + 1].filename),
                   EndCall("rejected", "cleared", NoModelOutput))

\* 30 s pass with the call in flight: the timer aborts it and the call
\* rejects with an AbortError: lines 82, 145-151
VisionTimerFires ==
  /\ VisionStep
  /\ CurrentCall.timer = "armed"
  /\ AfterAnalysis(analyzeImageRejected(photos[photoIndex + 1].filename),
                   EndCall("aborted", "fired", NoModelOutput))

\* line 267: the 50 ms are over and the loop goes on with the next photo
VisionDelayEnds ==
  /\ visionPc = "delay"
  /\ UNCHANGED <<sequenceVars, now, ticks, apiKey, nreq, unit>>
  /\ UNCHANGED <<visionRateLimitMap, visionRequest, visionRateLimit>>
  /\ Continue(photos, RunLoop(photos, photoIndex + 1, analysisResults),
              visionCalls, visionRateLimit.remaining)

\* the answer to a call the timer aborted arrives afterwards: nothing of
\* the handler reads it
VisionAnswerArrivesLate ==
  /\ visionPc # "idle"
  /\ \E k \in DOMAIN visionCalls :
        /\ visionCalls[k].state = "aborted"
        /\ ~visionCalls[k].late
        /\ visionCalls' = [visionCalls EXCEPT ![k].late = TRUE]
  /\ UNCHANGED <<sequenceVars, now, ticks, apiKey, nreq, unit>>
  /\ UNCHANGED <<visionRateLimitMap, visionPc, visionRequest, visionRateLimit,
                 photoIndex, analysisResults, visionRoute, visionResponse>>

\* the response is sent and the request's values are dropped
VisionClose ==
  /\ visionPc = "done"
  /\ visionPc' = "idle"
  /\ visionRequest' = NoVisionRequest
  /\ visionRateLimit' = NoRateLimit
  /\ photoIndex' = 0
  /\ analysisResults' = <<>>
  /\ visionCalls' = <<>>
  /\ visionRoute' = "none"
  /\ visionResponse' = NoVisionResponse
  /\ UNCHANGED <<sequenceVars, now, ticks, apiKey, nreq, unit, visionRateLimitMap>>

VisionReceive(r) ==
  \/ VisionReceiveNotPost(r)
  \/ VisionReceiveRateLimited(r)
  \/ VisionReceiveUnreadable(r)
  \/ VisionReceiveInvalid(r)
  \/ VisionReceiveNoKey(r)
  \/ VisionReceiveAndLoop(r)

VisionNext ==
  \/ \E r \in VisionRequests : VisionReceive(r)
  \/ \E resp \in VisionOutputs : VisionModelResponds(resp)
  \/ VisionModelFails
  \/ VisionTimerFires
  \/ VisionDelayEnds
  \/ VisionAnswerArrivesLate
  \/ VisionClose
  \/ \E d \in {RATE_LIMIT_WINDOW_MS, RATE_LIMIT_WINDOW_MS + 1} : Tick(d)

\* the vision endpoint alone
VisionSpec == Init /\ [][VisionNext]_vars

\* both endpoints
ServiceNext == Next \/ VisionNext
ServiceSpec == Init /\ [][ServiceNext]_vars

\* both endpoints, their Maps empty, or having counted all but one or all
\* of the requests one caller may make in the window that began at 0
LimiterMaps ==
  {[k \in Keys |-> NoRecord]}
  \cup {[k \in Keys |-> IF k = "10.0.0.1"
                         THEN Record(n, RATE_LIMIT_WINDOW_MS)
                         ELSE NoRecord] :
          n \in {RATE_LIMIT_MAX_REQUESTS - 1, RATE_LIMIT_MAX_REQUESTS}}

LimiterInit ==
  /\ rateLimitMap \in LimiterMaps
  /\ now = 0
  /\ ticks = 0
  /\ apiKey \in BOOLEAN
  /\ nreq = 0
  /\ pc = "idle"
  /\ request = NoRequest
  /\ rateLimit = NoRateLimit
  /\ images = <<>>
  /\ timer = "unset"
  /\ call = "none"
  /\ calls = 0
  /\ outcome = NoOutcome
  /\ route = "none"
  /\ response = NoResponse
  /\ late = FALSE
  /\ unit = NoUnit
  /\ visionRateLimitMap = rateLimitMap
  /\ VisionIdle

LimiterSpec == LimiterInit /\ [][ServiceNext]_vars

(***************************************************************************)
(* The pure functions on their own: a call is drawn with its arguments     *)
(* and the function is applied to them.                                    *)
(***************************************************************************)
\* longest ordering given to the shot builder
MaxShots == 10
\* longest text, in tokens, given to the parser
MaxTextLen == 4

ImageAlphabet ==
  {Image(Str("a"), Str("a.jpg")), Image(Num("1"), Undef),
   Image(Undef, Str("a")), Image(Undef, Undef)}
ImageLists == SeqsUpTo(ImageAlphabet, MaxItems)
TargetCounts == 0..(MaxItems + 1)
OrderingValues == {Undef, Str("a1")} \cup {Arr(c) : c \in Candidates}

Doc1 == Obj(Arr(<<Str("a")>>), Undef, Arr(Beats1), Str("trip"), Undef)
Tokens == {FENCE, JSONWORD, NL, SP, JUNK, DocTok(Doc1), DocTok(JNull)}
Texts ==
  SeqsUpTo(Tokens, MaxTextLen)
  \cup {FencedJson(d) : d \in {Doc1, JNull}} \cup {Fenced(d) : d \in {Doc1, JNull}}
Fallbacks == {fallbackPlan(<<Image(Str("a"), Undef)>>, 1), JNumber}

ValidationCall(c, imgs, n) ==
  [fn |-> "isValidSelection", done |-> FALSE, orderedIds |-> c, images |-> imgs,
   targetCount |-> n, result |-> FALSE]
FallbackCall(imgs, n) ==
  [fn |-> "deterministicFallback", done |-> FALSE, images |-> imgs,
   targetCount |-> n, result |-> <<>>]
ParseCall(t, fb) ==
  [fn |-> "safeParseJSON", done |-> FALSE, text |-> t, fallback |-> fb, result |-> Thrown]

\* orderings for the shot builder: the short ones, and longer ones that
\* hold the id a at one position p (or nowhere) among ids that no beat has
ShotOrderings ==
  SeqsUpTo(CandIds, 2)
  \cup {[k \in 1..n |-> IF k = p THEN Str("a") ELSE Str("q")] :
          n \in 3..MaxShots, p \in 0..MaxShots}
ShotBeats ==
  {<<>>, Beats1, Beats2, <<NullBeat, Beat(Str("a"), Str("turn"), Undef)>>,
   <<Beat(Str("z"), Undef, Str("why")), Beat(Str("1"), Str("build"), Str(""))>>}
BuildShotsCall(ids, beats) ==
  [fn |-> "buildShots", done |-> FALSE, orderedIds |-> ids, beats |-> beats,
   raised |-> FALSE, result |-> <<>>]

PureInit ==
  /\ rateLimitMap = [k \in Keys |-> NoRecord]
  /\ now = 0
  /\ ticks = 0
  /\ apiKey = TRUE
  /\ nreq = 0
  /\ pc = "idle"
  /\ request = NoRequest
  /\ rateLimit = NoRateLimit
  /\ images = <<>>
  /\ timer = "unset"
  /\ call = "none"
  /\ calls = 0
  /\ outcome = NoOutcome
  /\ route = "none"
  /\ response = NoResponse
  /\ late = FALSE
  /\ visionRateLimitMap = rateLimitMap
  /\ VisionIdle
  /\ \/ \E c \in OrderingValues, imgs \in ImageLists, n \in TargetCounts :
          unit = ValidationCall(c, imgs, n)
     \/ \E imgs \in ImageLists, n \in TargetCounts : unit = FallbackCall(imgs, n)
     \/ \E t \in Texts, fb \in Fallbacks : unit = ParseCall(t, fb)
     \/ \E ids \in ShotOrderings, beats \in ShotBeats : unit = BuildShotsCall(ids, beats)

PureUnchanged ==
  UNCHANGED <<rateLimitMap, now, ticks, apiKey, nreq, pc, request, rateLimit,
              images, timer, call, calls, outcome, route, response, late,
              visionVars>>

ApplyIsValidSelection ==
  /\ unit.fn = "isValidSelection"
  /\ ~unit.done
  /\ unit' = [unit EXCEPT !.done = TRUE,
                !.result = isValidSelection(unit.orderedIds, unit.images, unit.targetCount)]
  /\ PureUnchanged

ApplyDeterministicFallback ==
  /\ unit.fn = "deterministicFallback"
  /\ ~unit.done
  /\ unit' = [unit EXCEPT !.done = TRUE,
                !.result = deterministicFallback(unit.images, unit.targetCount)]
  /\ PureUnchanged

ApplySafeParseJSON ==
  /\ unit.fn = "safeParseJSON"
  /\ ~unit.done
  /\ unit' = [unit EXCEPT !.done = TRUE,
                !.result = safeParseJSON(unit.text, unit.fallback)]
  /\ PureUnchanged

\* the call raises when the search comes to a null beat
ApplyBuildShots ==
  /\ unit.fn = "buildShots"
  /\ ~unit.done
  /\ unit' = [unit EXCEPT !.done = TRUE,
                !.raised = buildShotsRaises(unit.orderedIds, unit.beats),
                !.result = IF buildShotsRaises(unit.orderedIds, unit.beats)
                           THEN <<>>
                           ELSE buildShots(unit.orderedIds, unit.beats)]
  /\ PureUnchanged

PureNext ==
  \/ ApplyIsValidSelection
  \/ ApplyDeterministicFallback
  \/ ApplySafeParseJSON
  \/ ApplyBuildShots

PureSpec == PureInit /\ [][PureNext]_vars

(***************************************************************************)
(* Properties.                                                             *)
(***************************************************************************)
\* the number of positions of s that hold x
Count(s, x) == Cardinality({i \in DOMAIN s : s[i] = x})
\* s and t hold the same elements the same number of times
IsPermutation(s, t) ==
  /\ Len(s) = Len(t)
  /\ \A x \in Range(s) \cup Range(t) : Count(s, x) = Count(t, x)
IsUnique(s) == \A i, j \in DOMAIN s : i # j => s[i] # s[j]
Strings(vs) == [i \in DOMAIN vs |-> String(vs[i])]
\* the ids of the items, in input order
ItemIds(imgs) == [i \in DOMAIN imgs |-> ImageId(imgs[i], i - 1)]

ValidationDone == unit.fn = "isValidSelection" /\ unit.done

\* C8: isValidSelection returns false for an absent or non-sequence
\* candidate, for an empty candidate when targetCount > 0, for a candidate
\* whose length differs from targetCount and for a candidate holding an id
\* (as a string) that is no item id; it returns true for every true
\* permutation of all item ids (targetCount being the number of items).
C8_ValidatorRules ==
  ValidationDone =>
    LET c == unit.orderedIds
        ids == ItemIds(unit.images)
    IN  /\ ~IsArray(c) => unit.result = FALSE
        /\ (IsArray(c) /\ c.a = <<>> /\ unit.targetCount > 0) => unit.result = FALSE
        /\ (IsArray(c) /\ Len(c.a) # unit.targetCount) => unit.result = FALSE
        /\ (IsArray(c) /\ \E i \in DOMAIN c.a : String(c.a[i]) \notin Range(ids))
             => unit.result = FALSE
        /\ (IsArray(c) /\ IsPermutation(Strings(c.a), ids)
              /\ unit.targetCount = Len(unit.images))
             => unit.result = TRUE

\* a permutation of two items, one id given as a number, in another order
\* than the items, was accepted
C8_Witness ==
  /\ ValidationDone
  /\ unit.orderedIds = Arr(<<Num("1"), Str("a")>>)
  /\ ItemIds(unit.images) = <<"a", "1">>
  /\ unit.targetCount = 2
  /\ unit.result = TRUE

FallbackDone == unit.fn = "deterministicFallback" /\ unit.done

\* the first k ids of the items, in input order
FirstIds(imgs, k) == SubSeq(ItemIds(imgs), 1, Min(k, Len(imgs)))

\* C9 as stated: with targetCount = n the Fallback Orderer returns n ids,
\* each unique, each an id of the input, in input order; with a smaller
\* targetCount the first targetCount ids.
C9_FallbackUnique ==
  FallbackDone =>
    /\ unit.targetCount <= Len(unit.images)
         => unit.result = FirstIds(unit.images, unit.targetCount)
    /\ unit.targetCount = Len(unit.images)
         => Len(unit.result) = Len(unit.images) /\ IsUnique(unit.result)

\* C9 amended: the ids returned are the first targetCount item ids in input
\* order (all n of them when targetCount = n); they are pairwise distinct
\* when the items' ids are.
C9_FallbackOrder ==
  FallbackDone =>
    /\ unit.targetCount <= Len(unit.images)
         => unit.result = FirstIds(unit.images, unit.targetCount)
    /\ unit.targetCount = Len(unit.images)
         => /\ Len(unit.result) = Len(unit.images)
            /\ IsUnique(ItemIds(unit.images)) => IsUnique(unit.result)

\* the orderer was applied to two items with distinct ids, one id given as
\* a number
C9_Witness ==
  /\ FallbackDone
  /\ Len(unit.images) = 2
  /\ unit.targetCount = 2
  /\ unit.result = <<"1", "a">>

ParseDone == unit.fn = "safeParseJSON" /\ unit.done

\* C10: the parser never raises; it returns the document of the text or the
\* fallback it was given: the document for plain JSON and for JSON in code
\* fences, the fallback for text that holds no document (garbage, the empty
\* string).
C10_ParserTotal ==
  ParseDone =>
    LET t == unit.text
    IN  /\ unit.result # Thrown
        /\ \/ unit.result = unit.fallback
           \/ \E i \in DOMAIN t : t[i].k = "doc" /\ unit.result = t[i].v
        /\ \A d \in {Doc1, JNull} :
             t \in {<<DocTok(d)>>, FencedJson(d), Fenced(d)} => unit.result = d
        /\ (\A i \in DOMAIN t : t[i].k # "doc") => unit.result = unit.fallback

\* JSON in a json code fence was parsed to its document
C10_Witness ==
  /\ ParseDone
  /\ unit.text = FencedJson(Doc1)
  /\ unit.result = Doc1
  /\ unit.fallback # Doc1


(***************************************************************************)
(* Properties of the handler.                                              *)
(***************************************************************************)
\* the handler has returned a response that carries a plan
Planned == pc = "done" /\ response.hasPlan
plan == response.plan
\* the item ids of the request, in input order
RequestItemIds == ItemIds(request.body.analysisResults.a)
\* the request passed the rate limiter and the structural checks
Accepted ==
  /\ request.method = "POST"
  /\ rateLimit.allowed
  /\ request.body.readable
  /\ StructuralError(request.body) = ""
\* the call resolved with a message; Raw is what its content parses to
Answered == outcome.kind = "resolved" /\ outcome.hasChoices
Raw == rawOf(outcome.content, images, Len(images))

\* C1: the ordered_ids of every plan returned are a permutation of the
\* request's item ids: every item id as often as the items hold it, no
\* other id.
C1_OrderedIdsPermutation ==
  Planned => IsPermutation(plan.ordered_ids, RequestItemIds)

\* C2: in every plan returned, on each exit, shots, durations and order are
\* as long as ordered_ids, transitions is one shorter (not below 0), and
\* ordered_ids is as long as the request's item list.
C2_PlanLengths ==
  Planned =>
    /\ Len(plan.shots) = Len(plan.ordered_ids)
    /\ Len(plan.durations) = Len(plan.ordered_ids)
    /\ Len(plan.order) = Len(plan.ordered_ids)
    /\ Len(plan.transitions) = Max(0, Len(plan.ordered_ids) - 1)
    /\ Len(plan.ordered_ids) = Length(request.body)

\* the model gave three ids for two items and the plan was returned on the
\* model-derived exit
C2_Witness ==
  /\ Planned
  /\ route = "model"
  /\ Answered
  /\ Len(selectedOrderedIds(Raw).a) = 3
  /\ Len(images) = 2
  /\ Len(plan.transitions) = 1

\* the response of a request that reached the model call
OkWithPlan == response.status = 200 /\ response.ok = "true" /\ response.hasPlan

C3_Answer ==
  /\ (pc = "done" /\ Accepted /\ apiKey
        /\ ~NormalizeRaises(request.body.analysisResults.a))
       => OkWithPlan /\ outcome.kind \in {"resolved", "rejected", "aborted"}
  /\ (pc = "done" /\ Accepted /\ ~apiKey)
       => response.status = 500 /\ response.ok = "absent" /\ route = "config"
  /\ (pc = "done" /\ Accepted /\ apiKey
        /\ NormalizeRaises(request.body.analysisResults.a))
       => response.status = 500 /\ response.ok = "false" /\ route = "toplevel"
  /\ (pc = "done" /\ response.ok = "false") => route = "toplevel"
  /\ pc = "awaiting" => Accepted /\ apiKey /\ response = NoResponse

C4_InvalidOrderingTaggedFallback ==
  (Planned /\ Answered
     /\ ~isValidSelection(selectedOrderedIds(Raw), images, Len(images)))
    => /\ plan.ordered_ids = deterministicFallback(images, Len(images))
       /\ plan.usedPlanner = "fallback"

\* C5: when the timer fires with the call in flight the call is aborted and
\* the answer is 200, ok:true, with the plan of the Fallback Orderer: the
\* item ids in input order, selected the identity, theme and emotion_arc
\* empty, usedPlanner "fallback", no error field.
C5_TimeoutFallback ==
  (pc = "done" /\ timer = "fired" /\ outcome.kind = "aborted") =>
    /\ call = "aborted"
    /\ OkWithPlan
    /\ plan.ordered_ids = RequestItemIds
    /\ plan.selected = Identity0(Len(RequestItemIds))
    /\ plan.theme = Str("")
    /\ plan.emotion_arc = <<>>
    /\ plan.usedPlanner = "fallback"
    /\ ~plan.hasError
    /\ plan.error = ""

\* the timer fired on the call of a request with two items
C5_Witness ==
  /\ pc = "done"
  /\ timer = "fired"
  /\ outcome.kind = "aborted"
  /\ route = "timeout"
  /\ Len(plan.ordered_ids) = 2

\* C6 as stated: a plan carries an error field exactly when the model call
\* failed other than by the timeout; then the plan is the Fallback
\* Orderer's, with empty theme and emotion_arc, usedPlanner "fallback" and
\* the failure message as error.
C6_ErrorFieldIffCallFailed ==
  Planned =>
    /\ plan.hasError <=> outcome.kind = "rejected"
    /\ outcome.kind = "rejected" =>
         /\ plan.ordered_ids = RequestItemIds
         /\ plan.theme = Str("")
         /\ plan.emotion_arc = <<>>
         /\ plan.usedPlanner = "fallback"
         /\ plan.error = outcome.message

\* the model's answer: an object whose ordering is a true permutation of
\* the item ids and whose beats (if any) are all beat records
ValidAnswer ==
  /\ Answered
  /\ Raw.kind = "object"
  /\ IsArray(selectedOrderedIds(Raw))
  /\ IsPermutation(Strings(selectedOrderedIds(Raw).a), RequestItemIds)
  /\ \A j \in DOMAIN beatsOf(Raw) : ~beatsOf(Raw)[j].isNull

\* C7: when the model gives a true permutation of the item ids (with
\* beats), the plan has usedPlanner "ai", its ordered_ids are the model's
\* ordering in the model's order (as strings), and each shot whose id has a
\* beat carries the role and the reason of the first such beat (where the
\* beat has them).
C7_ValidPermutationKept ==
  (pc = "done" /\ ValidAnswer) =>
    LET ordering == selectedOrderedIds(Raw).a
        beats == beatsOf(Raw)
    IN  /\ Planned
        /\ plan.usedPlanner = "ai"
        /\ plan.ordered_ids = Strings(ordering)
        /\ Len(plan.shots) = Len(ordering)
        /\ \A k \in DOMAIN ordering : \A j \in DOMAIN beats :
             (/\ String(beats[j].id) = String(ordering[k])
              /\ \A i \in 1..(j - 1) : String(beats[i].id) # String(ordering[k]))
             => /\ Truthy(beats[j].role) => plan.shots[k].role = String(beats[j].role)
                /\ Truthy(beats[j].reason) => plan.shots[k].reason = String(beats[j].reason)

\* the model reordered two items and gave beats; the second shot has the
\* role and reason of its beat
C7_Witness ==
  /\ pc = "done"
  /\ ValidAnswer
  /\ RequestItemIds = <<"a", "1">>
  /\ plan.ordered_ids = <<"1", "a">>
  /\ beatsOf(Raw) = Beats1
  /\ plan.shots[2].role = "climax"
  /\ plan.shots[2].reason = "the peak"

\* the ordering the Fallback Orderer gives for the items of a request: a
\* function of the analysis results alone
FallbackOrdering(results) == deterministicFallback(Normalize(results), Len(results))

\* C11: whenever a request's model call times out, the ordered_ids returned
\* are the value of one function of the request's items: the same for the
\* same items in every state, whatever requests came before, whatever the
\* rate limiter has counted, whatever the clock says.
C11_TimeoutOrderingOfItemsOnly ==
  (pc = "done" /\ route = "timeout") =>
    /\ response.hasPlan
    /\ plan.ordered_ids = FallbackOrdering(request.body.analysisResults.a)

\* the second request of a caller timed out, after the rate limiter had
\* counted the first
C11_Witness ==
  /\ pc = "done"
  /\ route = "timeout"
  /\ nreq = 2
  /\ rateLimit.remaining = RATE_LIMIT_MAX_REQUESTS - 2
  /\ Len(plan.ordered_ids) = 2

(***************************************************************************)
(* Properties of the vision handler.                                       *)
(***************************************************************************)
\* the vision request passed the rate limiter and the structural checks
VisionAccepted ==
  /\ visionRequest.method = "POST"
  /\ visionRateLimit.allowed
  /\ visionRequest.body.readable
  /\ VisionStructuralError(visionRequest.body) = ""
\* the photo is over the size limit and is not sent to the model
Oversized(photo) == photo.dataLength > MAX_BASE64_LENGTH
\* every photo of the request can be read: it is an object with a filename
\* and data that are strings
PhotosReadable == \A k \in DOMAIN photos : ~PhotoRaises(photos[k])
\* the calls issued for the photo at index k (0-based)
CallsFor(k) == {c \in DOMAIN visionCalls : visionCalls[c].photo = k}
\* the text of the model's response holds no JSON document
ParseFails(output) ==
  ~JSONParse(Trim(RemoveFences(RemoveJsonFences(Trim(output.output_text))))).ok
\* the call gave no analysis: it timed out, failed, or its text did not parse
NoAnalysis(c) ==
  \/ c.state \in {"aborted", "rejected"}
  \/ c.state = "resolved" /\ ParseFails(c.output)
VisionOk ==
  /\ visionResponse.status = 200
  /\ visionResponse.ok = "true"
  /\ visionResponse.hasResults

\* C12 as stated: every accepted vision request with k photos is answered
\* ok:true with k results and count k.
C12_AcceptedHasAllResults ==
  (visionPc = "done" /\ VisionAccepted) =>
    /\ VisionOk
    /\ Len(visionResponse.results) = Len(photos)
    /\ visionResponse.count = Len(photos)

\* C12 amended: an accepted vision request with k photos, served with the
\* API key set and with every photo readable, is answered ok:true with k
\* results and count k; results[j] is the canned analysis of photos[j]
\* when that photo is oversized or its call timed out, failed or gave text
\* that does not parse; no photo is left out.  Without the key the answer
\* is the 500 of the configuration check; with an unreadable photo it is
\* the 500 ok:false of the top-level catch.
C12_ResultPerPhoto ==
  /\ (visionPc = "done" /\ VisionAccepted /\ apiKey /\ PhotosReadable) =>
       /\ VisionOk
       /\ Len(visionResponse.results) = Len(photos)
       /\ visionResponse.count = Len(photos)
       /\ visionResponse.results = analysisResults
       /\ \A k \in DOMAIN photos :
            /\ Oversized(photos[k]) =>
                 visionResponse.results[k] = createFallbackAnalysis(photos[k].filename)
            /\ \A c \in CallsFor(k - 1) :
                 NoAnalysis(visionCalls[c]) =>
                   visionResponse.results[k] = createFallbackAnalysis(photos[k].filename)
            /\ (~Oversized(photos[k])) => CallsFor(k - 1) # {}
  /\ (visionPc = "done" /\ VisionAccepted /\ ~apiKey) =>
       visionResponse.status = 500 /\ visionResponse.ok = "absent" /\ visionRoute = "config"
  /\ (visionPc = "done" /\ VisionAccepted /\ apiKey /\ ~PhotosReadable) =>
       visionResponse.status = 500 /\ visionResponse.ok = "false" /\ visionRoute = "toplevel"

\* two photos were answered: the first call timed out, the second photo
\* was oversized, and both results are canned
C12_Witness ==
  /\ visionPc = "done"
  /\ VisionOk
  /\ Len(photos) = 2
  /\ Len(visionCalls) = 1
  /\ visionCalls[1].state = "aborted"
  /\ Oversized(photos[2])
  /\ visionResponse.count = 2

\* the result the photo at position k (1-based) gets from its own call c
\* alone: the analysis of the call's response, the canned analysis when
\* the call timed out or failed
OwnResult(k, c) ==
  IF visionCalls[c].state = "resolved"
  THEN analyzeImageResolved(photos[k].filename, visionCalls[c].output)
  ELSE createFallbackAnalysis(photos[k].filename)

\* C13: every result pushed is determined by its own photo and its own
\* call: canned when the call timed out, failed or gave text that does not
\* parse, otherwise the analysis of that call's response, whatever became
\* of the calls for the other photos; and a request that is answered with
\* results has submitted every photo that is not oversized.
C13_SiblingsUnaffected ==
  /\ \A k \in DOMAIN analysisResults :
       IF Oversized(photos[k])
       THEN /\ analysisResults[k] = createFallbackAnalysis(photos[k].filename)
            /\ CallsFor(k - 1) = {}
       ELSE /\ Cardinality(CallsFor(k - 1)) = 1
            /\ \A c \in CallsFor(k - 1) :
                 /\ visionCalls[c].state # "inflight"
                 /\ analysisResults[k] = OwnResult(k, c)
                 /\ NoAnalysis(visionCalls[c]) =>
                      analysisResults[k] = createFallbackAnalysis(photos[k].filename)
  /\ (visionPc = "done" /\ visionRoute = "results") =>
       /\ Len(analysisResults) = Len(photos)
       /\ \A k \in DOMAIN photos : ~Oversized(photos[k]) => CallsFor(k - 1) # {}

\* the call for the first of two photos timed out and the second photo got
\* the analysis the model gave for it
C13_Witness ==
  /\ visionPc = "done"
  /\ visionRoute = "results"
  /\ Len(visionCalls) = 2
  /\ visionCalls[1].state = "aborted"
  /\ visionCalls[2].state = "resolved"
  /\ analysisResults[1] = createFallbackAnalysis(photos[1].filename)
  /\ analysisResults[2].subject = Str("person")

(***************************************************************************)
(* Properties of both handlers.                                            *)
(***************************************************************************)
\* the value is missing, is no sequence, is empty (extra counting the
\* elements not enumerated) or holds more than cap elements
BadBatch(v, extra, cap) ==
  \/ v.tag # "array"
  \/ Len(v.a) + extra = 0
  \/ Len(v.a) + extra > cap
\* the request came as far as the structural checks
SequenceChecked ==
  request.method = "POST" /\ rateLimit.allowed /\ request.body.readable
VisionChecked ==
  visionRequest.method = "POST" /\ visionRateLimit.allowed /\ visionRequest.body.readable

\* C14: a request whose analysisResults (cap 200) or photos (cap 36) are
\* missing, no sequence, empty or over the cap is answered 400 and no
\* model call is made for it; a 400 is given for no other reason.
C14_StructuralErrorNoCall ==
  /\ (pc = "done" /\ SequenceChecked
        /\ BadBatch(request.body.analysisResults, request.body.extra, 200)) =>
       /\ response.status = 400
       /\ route = "structural"
       /\ calls = 0
       /\ call = "none"
       /\ outcome = NoOutcome
  /\ (pc = "done" /\ response.status = 400) =>
       /\ SequenceChecked
       /\ BadBatch(request.body.analysisResults, request.body.extra, 200)
  /\ (visionPc = "done" /\ VisionChecked
        /\ BadBatch(visionRequest.body.photos, visionRequest.body.extra, 36)) =>
       /\ visionResponse.status = 400
       /\ visionRoute = "structural"
       /\ visionCalls = <<>>
  /\ (visionPc = "done" /\ visionResponse.status = 400) =>
       /\ VisionChecked
       /\ BadBatch(visionRequest.body.photos, visionRequest.body.extra, 36)

\* a vision request with 37 photos, the second request served, was rejected
C14_Witness ==
  /\ visionPc = "done"
  /\ visionResponse.status = 400
  /\ VisionLength(visionRequest.body) = 37
  /\ visionCalls = <<>>
  /\ nreq = 2

\* the model calls of the request in hand that were issued and have not
\* ended
SequenceOutstanding == calls - (IF call \in {"resolved", "rejected", "aborted"} THEN 1 ELSE 0)
VisionOutstanding == Cardinality({c \in DOMAIN visionCalls : visionCalls[c].state = "inflight"})

\* C15: a request has at most one model call outstanding: a sequence
\* request never two, and a vision request has every earlier call ended
\* (resolved, rejected or aborted) when the call for the next photo is out.
C15_OneCallOutstanding ==
  /\ SequenceOutstanding \in {0, 1}
  /\ SequenceOutstanding = 1 <=> pc = "awaiting"
  /\ VisionOutstanding \in {0, 1}
  /\ VisionOutstanding = 1 <=> visionPc = "awaiting"
  /\ \A c \in 1..(Len(visionCalls) - 1) :
       /\ visionCalls[c].state \in {"resolved", "rejected", "aborted"}
       /\ visionCalls[c].photo < visionCalls[c + 1].photo

\* the call for the second photo is out after the call for the first ended
C15_Witness ==
  /\ visionPc = "awaiting"
  /\ Len(visionCalls) = 2
  /\ visionCalls[1].state = "resolved"
  /\ visionCalls[2].state = "inflight"

\* C16: a sequence request that came to wait for the model has issued
\* exactly one call, whatever the call's end (answer, parse or validation
\* failure, timeout, error), and no request more than one; a vision
\* request has issued at most one call per photo.
C16_NoRetry ==
  /\ calls \in {0, 1}
  /\ (pc = "awaiting" \/ (pc = "done" /\ route \in {"model", "timeout", "error"}))
       => calls = 1
  /\ (pc = "done" /\ route \notin {"model", "timeout", "error"}) => calls = 0
  /\ \A k \in 0..(Len(photos) - 1) : Cardinality(CallsFor(k)) <= 1
  /\ \A c \in DOMAIN visionCalls :
       visionCalls[c].photo \in 0..(Len(photos) - 1)

\* a sequence request was answered after its one call had failed
C16_Witness ==
  /\ pc = "done"
  /\ route = "error"
  /\ outcome.kind = "rejected"
  /\ calls = 1

\* a call's end and what the handler made of it agree
OutcomeObserved ==
  /\ call = "resolved" => outcome.kind = "resolved" /\ route \in {"model", "error"}
                           /\ timer = "cleared"
  /\ call = "rejected" => outcome.kind = "rejected" /\ route = "error"
  /\ call = "aborted" => outcome.kind = "aborted" /\ route = "timeout"
  /\ call = "inflight" => outcome.kind = "none" /\ route = "none"
  /\ \A c \in DOMAIN visionCalls :
       /\ visionCalls[c].state = "aborted" <=> visionCalls[c].timer = "fired"
       /\ visionCalls[c].state \in {"resolved", "rejected"}
            => visionCalls[c].timer = "cleared"

\* a call that has ended keeps its end, and what was returned or pushed for
\* it stays, as long as the request is in hand
OutcomeKept ==
  /\ (call \in {"resolved", "rejected", "aborted"} /\ pc' = "done") =>
       /\ call' = call
       /\ outcome' = outcome
       /\ route' = route
       /\ response' = response
  /\ visionPc' # "idle" =>
       /\ \A c \in DOMAIN visionCalls :
            visionCalls[c].state # "inflight" =>
              /\ c \in DOMAIN visionCalls'
              /\ visionCalls'[c].state = visionCalls[c].state
              /\ visionCalls'[c].output = visionCalls[c].output
       /\ \A k \in DOMAIN analysisResults :
            /\ k \in DOMAIN analysisResults'
            /\ analysisResults'[k] = analysisResults[k]

\* C19: every model call ends once, as a success, a timeout or an error,
\* however the arrival of the answer and the firing of the timer fall: an
\* answer that arrives after the timer fired changes nothing, and a timer
\* that fires after the answer was taken leaves the result as it is.
C19_OneOutcomePerCall ==
  /\ []OutcomeObserved
  /\ [][OutcomeKept]_vars

\* the answer to an aborted call arrived after the timeout plan had been
\* returned
C19_Witness ==
  /\ pc = "done"
  /\ call = "aborted"
  /\ late
  /\ route = "timeout"
  /\ ~plan.hasError

(***************************************************************************)
(* Properties of the model-derived exit and of the shot builder.           *)
(***************************************************************************)
\* the text of the model's answer holds no JSON document
Unparseable == ~JSONParse(Trim(RemoveFences(RemoveJsonFences(Trim(outcome.content))))).ok
\* the answer parses to a value that has neither orderedIds nor ordered_ids
LacksOrdering == ~Unparseable /\ Raw.orderedIds = Undef /\ Raw.ordered_ids = Undef

\* C17 as stated: when the model's answer does not parse, or parses to a
\* value without an ordering field (an object without it, null, a number),
\* the response is ok:true, ordered_ids is the Fallback Orderer's ordering
\* and the plan has no error field.
C17_NoOrderingRecoveredLocally ==
  (pc = "done" /\ Answered /\ (Unparseable \/ LacksOrdering)) =>
    /\ OkWithPlan
    /\ plan.ordered_ids = deterministicFallback(images, Len(images))
    /\ ~plan.hasError

\* the ordering of the model's answer failed validation and the handler
\* dealt with it inline, leaving by the model-derived exit
InlineFallback ==
  /\ pc = "done"
  /\ Answered
  /\ route = "model"
  /\ ~isValidSelection(selectedOrderedIds(Raw), images, Len(images))

\* C18: on a validation failure handled inline the plan has the Fallback
\* Orderer's ordering, the model's theme and emotion_arc, for each id the
\* role and reason of the first beat with that id (where the beat has
\* them), usedPlanner "ai" and no error field.
C18_InlineFallbackKeepsNarrative ==
  InlineFallback =>
    LET beats == beatsOf(Raw)
    IN  /\ plan.ordered_ids = deterministicFallback(images, Len(images))
        /\ plan.usedPlanner = "ai"
        /\ ~plan.hasError
        /\ Truthy(Raw.theme) => plan.theme = Raw.theme
        /\ IsArray(Raw.emotion_arc) => plan.emotion_arc = Raw.emotion_arc.a
        /\ \A k \in DOMAIN plan.shots : \A j \in DOMAIN beats :
             (/\ String(beats[j].id) = plan.ordered_ids[k]
              /\ \A b \in 1..(j - 1) : String(beats[b].id) # plan.ordered_ids[k])
             => /\ Truthy(beats[j].role) => plan.shots[k].role = String(beats[j].role)
                /\ Truthy(beats[j].reason) => plan.shots[k].reason = String(beats[j].reason)

\* the model named an id that is no item; the plan has the items in input
\* order, the model's theme and, for the first item, its beat's role
C18_Witness ==
  /\ InlineFallback
  /\ selectedOrderedIds(Raw) = Arr(<<Str("a"), Str("z")>>)
  /\ plan.ordered_ids = <<"a", "1">>
  /\ plan.theme = Str("trip")
  /\ plan.emotion_arc = <<Arc>>
  /\ plan.shots[1].role = "climax"
  /\ plan.usedPlanner = "ai"

BuildShotsDone == unit.fn = "buildShots" /\ unit.done /\ ~unit.raised

\* C20: the shot at position idx of an ordering of length n has the role of
\* the first beat with its id (ids compared as strings) when that beat has
\* a role, otherwise "opening" for idx < 0.2n, "build" for idx < 0.6n,
\* "turn" for idx < 0.9n and "resolution" beyond; its reason is that
\* beat's reason, or the empty string; without beats position 0 is
\* "opening".
C20_ShotRoles ==
  BuildShotsDone =>
    LET ids == unit.orderedIds
        beats == unit.beats
        n == Len(ids)
    IN  /\ Len(unit.result) = n
        /\ \A k \in DOMAIN ids :
             LET idx == k - 1
                 first == {j \in DOMAIN beats :
                             /\ String(beats[j].id) = String(ids[k])
                             /\ \A b \in 1..(j - 1) : String(beats[b].id) # String(ids[k])}
                 hasRole == \E j \in first : Truthy(beats[j].role)
                 hasReason == \E j \in first : Truthy(beats[j].reason)
                 shot == unit.result[k]
             IN  /\ shot.id = ids[k]
                 /\ \A j \in first : Truthy(beats[j].role) => shot.role = String(beats[j].role)
                 /\ \A j \in first : Truthy(beats[j].reason) => shot.reason = String(beats[j].reason)
                 /\ ~hasReason => shot.reason = ""
                 /\ (~hasRole /\ idx * 10 < 2 * n) => shot.role = "opening"
                 /\ (~hasRole /\ idx * 10 >= 2 * n /\ idx * 10 < 6 * n) => shot.role = "build"
                 /\ (~hasRole /\ idx * 10 >= 6 * n /\ idx * 10 < 9 * n) => shot.role = "turn"
                 /\ (~hasRole /\ idx * 10 >= 9 * n) => shot.role = "resolution"
        /\ (beats = <<>> /\ n > 0) => unit.result[1].role = "opening"

\* ten shots were built: the one with a beat has the beat's role, the
\* second stands at the quantile and is "build", the last is "resolution"
C20_Witness ==
  /\ BuildShotsDone
  /\ Len(unit.orderedIds) = 10
  /\ unit.beats = Beats1
  /\ unit.orderedIds[5] = Str("a")
  /\ unit.result[5].role = "climax"
  /\ unit.result[1].role = "opening"
  /\ unit.result[3].role = "build"
  /\ unit.result[10].role = "resolution"

\* C21: in every plan returned, selected is as long as ordered_ids, each
\* selected[k] is an index of the request's items whose item has the id
\* ordered_ids[k], on the model-derived exit the first such index, and
\* order is 0..n-1.
C21_SelectedIndices ==
  Planned =>
    /\ Len(plan.selected) = Len(plan.ordered_ids)
    /\ \A k \in DOMAIN plan.selected :
         /\ plan.selected[k] \in 0..(Len(RequestItemIds) - 1)
         /\ RequestItemIds[plan.selected[k] + 1] = plan.ordered_ids[k]
         /\ route = "model" =>
              \A j \in 0..(plan.selected[k] - 1) :
                 RequestItemIds[j + 1] # plan.ordered_ids[k]
    /\ plan.order = [k \in 1..Len(plan.ordered_ids) |-> k - 1]

\* the model put two items in the other order: selected follows the
\* model's order, order does not
C21_Witness ==
  /\ Planned
  /\ route = "model"
  /\ RequestItemIds = <<"a", "1">>
  /\ plan.ordered_ids = <<"1", "a">>
  /\ plan.selected = <<1, 0>>
  /\ plan.order = <<0, 1>>

(***************************************************************************)
(* Properties of the rate limiters.                                        *)
(***************************************************************************)
\* every record of the Map has counted between 1 and 30 requests
CountsInRange(map) ==
  \A k \in Keys : map[k].present => map[k].count \in 1..30

\* what the handler holds of the rate-limit check once it has answered:
\* an allowed request was told 30 - count, a denied one was answered 429
\* while its key's record stood at 30 in its window
DecisionReported(answered, req, rl, map, status) ==
  (answered /\ req.method = "POST") =>
    LET record == map[getRateLimitKey(req.ip)]
    IN  /\ record.present
        /\ rl.allowed => rl.remaining = 30 - record.count
        /\ ~rl.allowed =>
             /\ status = 429
             /\ rl.remaining = 0
             /\ record.count = 30
             /\ now <= record.resetAt

\* a step that changes the record of a key is a request of that key that
\* was allowed: it opens a window with count 1 when the key has no record
\* or its window is over, and otherwise adds one to a count below 30
RecordStep(map, mapAfter, received, req, rl) ==
  \A k \in Keys :
    mapAfter[k] # map[k] =>
      /\ received
      /\ req.method = "POST"
      /\ getRateLimitKey(req.ip) = k
      /\ rl.allowed
      /\ \/ /\ ~map[k].present \/ now > map[k].resetAt
            /\ mapAfter[k] = Record(1, now + RATE_LIMIT_WINDOW_MS)
         \/ /\ map[k].present
            /\ now <= map[k].resetAt
            /\ map[k].count < 30
            /\ mapAfter[k] = Record(map[k].count + 1, map[k].resetAt)

\* a request of a key whose record stands at 30 in its window is denied
FullDenied(map, received, req, rl, status) ==
  (/\ received
   /\ req.method = "POST"
   /\ map[getRateLimitKey(req.ip)].present
   /\ map[getRateLimitKey(req.ip)].count >= 30
   /\ now <= map[getRateLimitKey(req.ip)].resetAt)
  => ~rl.allowed /\ status = 429

SequenceReceived == pc = "idle" /\ pc' # "idle"
VisionReceived == visionPc = "idle" /\ visionPc' # "idle"

\* C22: in each endpoint's limiter a record never counts more than 30; an
\* allowed request is told remaining = 30 - count; within a window the
\* count of a key rises by one per allowed request from 1 up to 30, so at
\* most 30 are allowed; every further request of the key in the window is
\* answered 429 and leaves the record as it is; a request changes the
\* record of no key but its own.
C22_FixedWindowCounter ==
  /\ [](CountsInRange(rateLimitMap) /\ CountsInRange(visionRateLimitMap))
  /\ [](/\ DecisionReported(pc = "done", request, rateLimit, rateLimitMap,
                             response.status)
        /\ DecisionReported(visionPc = "done", visionRequest, visionRateLimit,
                             visionRateLimitMap, visionResponse.status))
  /\ [][/\ RecordStep(rateLimitMap, rateLimitMap', SequenceReceived, request', rateLimit')
        /\ RecordStep(visionRateLimitMap, visionRateLimitMap', VisionReceived,
                      visionRequest', visionRateLimit')
        /\ FullDenied(rateLimitMap, SequenceReceived, request', rateLimit',
                      response'.status)
        /\ FullDenied(visionRateLimitMap, VisionReceived, visionRequest',
                      visionRateLimit', visionResponse'.status)]_vars

\* the second request of a caller who had one request left in the window
\* was denied
C22_Witness ==
  /\ pc = "done"
  /\ nreq = 2
  /\ now = 0
  /\ ~rateLimit.allowed
  /\ response.status = 429
  /\ rateLimitMap["10.0.0.1"] = Record(30, RATE_LIMIT_WINDOW_MS)
  /\ visionRateLimitMap["10.0.0.1"] = Record(29, RATE_LIMIT_WINDOW_MS)

\* a request of a key whose window is over is allowed and opens a window
\* that begins now, with count 1
ExpiredReplaced(map, mapAfter, received, req, rl) ==
  (/\ received
   /\ req.method = "POST"
   /\ map[getRateLimitKey(req.ip)].present
   /\ now > map[getRateLimitKey(req.ip)].resetAt)
  => /\ rl.allowed
     /\ rl.remaining = 29
     /\ mapAfter[getRateLimitKey(req.ip)] = Record(1, now + RATE_LIMIT_WINDOW_MS)

\* a record stays as it is, and stays in the Map, in every step that is
\* not a request of its key; the passing of time changes no record
OnlyOwnKey(map, mapAfter, received, req) ==
  \A k \in Keys :
    /\ map[k].present => mapAfter[k].present
    /\ mapAfter[k] # map[k] =>
         received /\ req.method = "POST" /\ getRateLimitKey(req.ip) = k

\* C23: records expire on access only: the first request of a key after
\* the resetAt of its record (a full record included) is allowed and
\* replaces the record by count 1 and a window from that moment; until
\* then, and by the steps of other keys or of the clock, no record is
\* changed or removed.
C23_LazyExpiry ==
  [][/\ ExpiredReplaced(rateLimitMap, rateLimitMap', SequenceReceived, request', rateLimit')
     /\ ExpiredReplaced(visionRateLimitMap, visionRateLimitMap', VisionReceived,
                        visionRequest', visionRateLimit')
     /\ OnlyOwnKey(rateLimitMap, rateLimitMap', SequenceReceived, request')
     /\ OnlyOwnKey(visionRateLimitMap, visionRateLimitMap', VisionReceived,
                   visionRequest')
     /\ (now' # now => /\ rateLimitMap' = rateLimitMap
                       /\ visionRateLimitMap' = visionRateLimitMap)]_vars

\* the one request served came after the window of a full record was over:
\* it was allowed and the record was replaced (the vision Map still holds
\* the full record both Maps began with)
C23_Witness ==
  /\ pc = "done"
  /\ nreq = 1
  /\ now = RATE_LIMIT_WINDOW_MS + 1
  /\ rateLimit.allowed
  /\ rateLimit.remaining = 29
  /\ rateLimitMap["10.0.0.1"] = Record(1, now + RATE_LIMIT_WINDOW_MS)
  /\ visionRateLimitMap["10.0.0.1"] = Record(30, RATE_LIMIT_WINDOW_MS)

(***************************************************************************)
(* Properties of the response headers, the timers and the file names.      *)
(***************************************************************************)
\* C24 as stated: every ok:true response of the sequence endpoint, on the
\* model-derived, the timeout and the error exit alike, has the header
\* X-RateLimit-Remaining with the remaining quota the rate-limit check gave
\* for the request; a denied request is answered 429 with
\* X-RateLimit-Remaining 0 and Retry-After.
C24_RemainingHeaderOnEveryOk ==
  /\ (pc = "done" /\ response.ok = "true") =>
       response.xRateLimitRemaining = NumToString(rateLimit.remaining)
  /\ (pc = "done" /\ request.method = "POST" /\ ~rateLimit.allowed) =>
       /\ response.status = 429
       /\ response.xRateLimitRemaining = "0"
       /\ response.retryAfter # NoHeader

\* C25 as stated: when a model call has ended before its timer fired, by
\* an answer or by a failure other than the timeout, the timer has been
\* cancelled: no timer is armed when the handler has returned, and no
\* timer fires on a call that has ended.
C25_TimerCancelled ==
  /\ pc \in {"done", "idle"} => timer # "armed"
  /\ call \in {"resolved", "rejected"} => timer = "cleared"
  /\ \A c \in DOMAIN visionCalls :
       visionCalls[c].state \in {"resolved", "rejected"}
         => visionCalls[c].timer = "cleared"

\* C26 as stated: every result of a vision response has the filename of
\* its photo, whatever the model's output holds.
C26_FilenameKept ==
  (visionPc = "done" /\ VisionOk) =>
    \A k \in DOMAIN visionResponse.results :
       visionResponse.results[k].filename = photos[k].filename

=============================================================================
